---- MODULE Spec2Model ----
(***************************************************************************)
(* A model of the JCN dashboard backend: the day-keyed JSON file caches    *)
(* (api/cache_utils.py, api/benchmarks.py), the CacheManager               *)
(* (api/cache_manager.py), the request handlers built on it and the        *)
(* per-holding metric calculators.                                         *)
(*                                                                         *)
(* Conventions.  Python's None and NaN (for optional numbers) are the      *)
(* integers None and NaN; prices, shares and cost bases are small          *)
(* naturals.  A percentage is kept in hundredths of a percent; rounding is *)
(* round-half-even on the exact quotient.  A Python dict is a function     *)
(* whose domain is its key set; a key of a dict that is written to a JSON  *)
(* file is a record [kind, name] where name is the text of the key.        *)
(***************************************************************************)
EXTENDS Integers, Sequences, FiniteSets, TLC

VARIABLES
  clock,        \* seconds since the model's epoch (time.time())
  files,        \* /tmp/jcn_cache/*_data.json : file name -> file content
  pricesFile,   \* /tmp/jcn_cache/current_prices.json
  mgr,          \* the CacheManager instance: current_prices, motherduck_data
  saved,        \* history: per file, the payload of the last successful save
  call,         \* the inputs of the one call a process of SpecMetrics makes
  ret,          \* the call that has not yet returned and what it returns
  cache_store,  \* index.py: the in-memory TTL cache, key -> data, timestamp
  threads,      \* the requests running concurrently: where each one is
  lock,         \* CacheManager._lock: the thread that holds it, or Free
  queries       \* history: the MotherDuck queries the threads have executed

\* the state of the concurrent requests
conc == <<threads, lock, queries>>

vars == <<clock, files, pricesFile, mgr, saved, call, ret, cache_store, conc>>

-----------------------------------------------------------------------------
(* Bounds *)

MaxDay == 2          \* calendar days explored: 0 .. MaxDay - 1
MaxTicks == 1        \* clock ticks explored within one day
MaxPayloadVal == 0   \* payload values: 0 .. MaxPayloadVal
MaxQuote == 1        \* quotes of the price provider: 1 .. MaxQuote
MaxHoldings == 2     \* holdings in one request of the handlers
MaxPrice == 2        \* prices in the data source: 0 .. MaxPrice, or NULL
MaxLive == 3         \* live quotes of a single call: 1 .. MaxLive
MaxCost == 1         \* cost bases: 0 .. MaxCost
MaxShares == 2       \* share counts: 0 .. MaxShares
MaxPositions == 3    \* holdings in a single call with several holdings
MaxRows == 3         \* price rows per symbol in api/index.py
MaxTableRows == 3    \* rows of a score table

-----------------------------------------------------------------------------
(* Python values *)

\* None and float('nan'), kept apart from the prices, which are never
\* negative
None == -1
NaN == -2

\* bool(x) of a price: None and 0 are false, NaN is true
Truthy(x) == x # None /\ x # 0

\* a != b on floats: NaN differs from every float, itself included
PyNotEqual(a, b) == a = NaN \/ b = NaN \/ a # b

\* A float that a calculation produced: NaN, or val hundredths.
Float(v) == [nan |-> FALSE, val |-> v]
FloatNaN == [nan |-> TRUE, val |-> 0]

StrKey(s) == [kind |-> "str", name |-> s]
IntKey(s) == [kind |-> "int", name |-> s]

EmptyDict == [k \in {} |-> 0]

\* dict.get(key) with default None
DictGet(d, k) == IF k \in DOMAIN d THEN d[k] ELSE None

-----------------------------------------------------------------------------
(* Clock and calendar date *)

SecondsPerDay == 24 * 60 * 60
TickStep == 31 * 60

\* date.today().isoformat(), str(date.today()), strftime('%Y-%m-%d'):
\* the three spellings give the same text for the same calendar day.
Today(t) == t \div SecondsPerDay

-----------------------------------------------------------------------------
(* JSON *)

\* json.dump of a dict: every key is written as its text, an int key 1
\* becomes the string "1".  The payloads explored never hold two keys with
\* the same text, so no key is written twice.
json_dump(d) ==
  [k \in {StrKey(x.name) : x \in DOMAIN d} |->
      d[CHOOSE x \in DOMAIN d : x.name = k.name]]

\* json.load of a JSON object: a dict with string keys.
json_load(doc) == [k \in DOMAIN doc |-> doc[k]]

-----------------------------------------------------------------------------
(* Cache files *)

NoFile == [kind |-> "none", cache_date |-> None, data |-> EmptyDict]
Corrupt == [kind |-> "corrupt", cache_date |-> None, data |-> EmptyDict]
JsonFile(date, doc) == [kind |-> "json", cache_date |-> date, data |-> doc]

ModuleNames == {"benchmarks", "motherduck"}
\* the modules of the listing: the last name itself ends with '_data'
ListModules == ModuleNames \cup {"benchmarks_data"}

get_cache_file_path(module_name) == module_name \o "_data.json"

BENCHMARKS_CACHE_FILE == "benchmarks_data.json"
MOTHERDUCK_DATA_FILE == "motherduck_data.json"

FileNames == {get_cache_file_path(m) : m \in ModuleNames}

\* The outcome of writing a file: written; open() failed (the file is as
\* before); json.dump failed after open() truncated the file.
WriteOutcomes == {"ok", "open_fails", "dump_fails"}

WriteFile(old, date, data, outcome) ==
  CASE outcome = "ok" -> JsonFile(date, json_dump(data))
    [] outcome = "open_fails" -> old
    [] outcome = "dump_fails" -> Corrupt

Hit(d) == [hit |-> TRUE, val |-> d]
Miss == [hit |-> FALSE, val |-> EmptyDict]

\* load_cache testing the payload for truth instead of the file for
\* presence: an empty payload saved today reads as a miss.
load_cache_truthy(fs, module_name, t) ==
  LET f == fs[get_cache_file_path(module_name)] IN
  IF f.kind = "json" /\ f.cache_date = Today(t)
     /\ json_load(f.data) # EmptyDict
  THEN Hit(json_load(f.data))
  ELSE Miss

\* cache_utils.load_cache: the 'data' of today's file, else None
load_cache(fs, module_name, t) ==
  LET f == fs[get_cache_file_path(module_name)] IN
  IF f.kind = "none" THEN Miss
  ELSE IF f.kind = "corrupt" THEN Miss
  ELSE IF f.cache_date = Today(t) THEN Hit(json_load(f.data))
  ELSE Miss

\* cache_utils.get_cache_info: no dict (None) or one; json.load of a file
\* that is not JSON raises and None is returned
get_cache_info(fs, module_name, t) ==
  LET f == fs[get_cache_file_path(module_name)] IN
  IF f.kind = "none" THEN <<>>
  ELSE IF f.kind = "corrupt" THEN <<>>
  ELSE <<[module_name |-> module_name, cache_date |-> f.cache_date,
          is_valid |-> (f.cache_date = Today(t))]>>

\* cache_file.stem.replace('_data', ''): the name without '.json' and
\* without any '_data' in it
StemModule(path) ==
  CASE path = "benchmarks_data.json" -> "benchmarks"
    [] path = "motherduck_data.json" -> "motherduck"
    [] path = "benchmarks_data_data.json" -> "benchmarks"

\* CACHE_DIR.glob("*_data.json")
Globbed(fs) == {p \in DOMAIN fs : fs[p].kind # "none"}

\* cache_utils.list_all_caches: the infos that are not None, here under the
\* file each came from (the order of glob is that of the directory)
list_all_caches(fs, t) ==
  [p \in {q \in Globbed(fs) : get_cache_info(fs, StemModule(q), t) # <<>>} |->
     get_cache_info(fs, StemModule(p), t)[1]]

\* cache_utils.save_cache: the files after the call and the value returned
save_cache(fs, module_name, data, t, outcome) ==
  LET p == get_cache_file_path(module_name) IN
  [files |-> [fs EXCEPT ![p] = WriteFile(fs[p], Today(t), data, outcome)],
   ok |-> (outcome = "ok")]

\* cache_utils.clear_cache(module_name)
clear_cache(fs, module_name) ==
  LET p == get_cache_file_path(module_name) IN
  IF fs[p].kind # "none"
  THEN [files |-> [fs EXCEPT ![p] = NoFile], ok |-> TRUE]
  ELSE [files |-> fs, ok |-> FALSE]

\* cache_utils.clear_cache(): every *_data.json file is removed
clear_all_caches(fs) ==
  [files |-> [p \in DOMAIN fs |-> NoFile], ok |-> TRUE]

\* the outcome of fetch_function(): the dict it returns, or an exception
Fetched(d) == [exc |-> "none", val |-> d]
FetchRaises == [exc |-> "FetchError", val |-> EmptyDict]

\* a fetch_with_cache that returns the fresh data without saving it
FetchFresh_unsaved(fs, module_name, fresh_data, t, outcome) ==
  [files |-> fs, exc |-> "none", val |-> fresh_data, called |-> TRUE]

\* fetch_with_cache once fetch_function has returned fresh_data: it is
\* saved, whatever save_cache returns, and returned as it is
FetchFresh(fs, module_name, fresh_data, t, outcome) ==
  [files |-> save_cache(fs, module_name, fresh_data, t, outcome).files,
   exc |-> "none", val |-> fresh_data, called |-> TRUE]

\* a fallback that wants the file to be of today
FetchFallback_today(fs, module_name, t, exc) ==
  [files |-> fs, called |-> TRUE,
   exc |-> IF load_cache(fs, module_name, t).hit THEN "none" ELSE exc,
   val |-> load_cache(fs, module_name, t).val]

\* fetch_with_cache once fetch_function has raised exc: the 'data' of the
\* cache file whatever its date, and exc again when the file is missing or
\* cannot be read
FetchFallback(fs, module_name, t, exc) ==
  [files |-> fs, called |-> TRUE,
   exc |-> IF fs[get_cache_file_path(module_name)].kind = "json"
           THEN "none" ELSE exc,
   val |-> IF fs[get_cache_file_path(module_name)].kind = "json"
           THEN json_load(fs[get_cache_file_path(module_name)].data)
           ELSE EmptyDict]

\* cache_utils.fetch_with_cache(module_name, fetch_function, force_refresh).
\* fetch: what fetch_function does if it is called.
fetch_with_cache(fs, module_name, fetch, force_refresh, t, outcome) ==
  IF ~force_refresh /\ load_cache(fs, module_name, t).hit
  THEN [files |-> fs, exc |-> "none", called |-> FALSE,
        val |-> load_cache(fs, module_name, t).val]
  ELSE IF fetch.exc = "none"
  THEN FetchFresh(fs, module_name, fetch.val, t, outcome)
  ELSE FetchFallback(fs, module_name, t, fetch.exc)

\* load_cached_benchmarks without the comparison of cache_date with today
load_cached_benchmarks_any_date(fs, t) ==
  LET f == fs[BENCHMARKS_CACHE_FILE] IN
  IF f.kind = "json" THEN Hit(json_load(f.data)) ELSE Miss

\* benchmarks.load_cached_benchmarks: today's whole cache record, else None
load_cached_benchmarks(fs, t) ==
  LET f == fs[BENCHMARKS_CACHE_FILE] IN
  IF f.kind = "none" THEN Miss
  ELSE IF f.kind = "corrupt" THEN Miss
  ELSE IF f.cache_date = Today(t) THEN Hit(json_load(f.data))
  ELSE Miss

\* benchmarks.save_benchmarks_cache: errors are printed, nothing is returned
save_benchmarks_cache(fs, data, t, outcome) ==
  [fs EXCEPT ![BENCHMARKS_CACHE_FILE] =
      WriteFile(fs[BENCHMARKS_CACHE_FILE], Today(t), data, outcome)]

-----------------------------------------------------------------------------
(* Rounding and percentages *)

\* round-half-even of num / den, den # 0 (Python's round on the quotient)
RoundHalfEven(num, den) ==
  LET n == IF den < 0 THEN 0 - num ELSE num
      d == IF den < 0 THEN 0 - den ELSE den
      q == n \div d
      r == n % d
  IN IF 2 * r < d THEN q
     ELSE IF 2 * r > d THEN q + 1
     ELSE IF q % 2 = 0 THEN q ELSE q + 1

\* round(a / b * 100, 2), in hundredths of a percent
Pct2(a, b) == RoundHalfEven(a * 100 * 100, b)

\* round(a / b * 100, 1), in hundredths of a percent
Pct1(a, b) == 10 * RoundHalfEven(a * 100 * 10, b)

RECURSIVE SumSeq(_)
SumSeq(s) == IF s = <<>> THEN 0 ELSE Head(s) + SumSeq(Tail(s))

-----------------------------------------------------------------------------
(* CacheManager (api/cache_manager.py) *)

CURRENT_PRICE_TTL == 30 * 60

\* One row of MotherDuck data: the six prices of a symbol, each a number
\* or None.  Sector and industry are left out.
MdRow(latest, prev, ytd, yago, hi, lo) ==
  [latest_eod_close |-> latest, prev_close |-> prev, ytd_start_price |-> ytd,
   year_ago_price |-> yago, week_52_high |-> hi, week_52_low |-> lo]

NoRow == [some |-> FALSE, row |-> MdRow(None, None, None, None, None, None)]
SomeRow(r) == [some |-> TRUE, row |-> r]

\* The cell of the DataFrame (.df(), .fetchdf()) for a value of a numeric
\* column of the query result: a SQL NULL, written None, arrives as NaN.
DfValue(sql) == IF sql = None THEN NaN ELSE sql

\* float(x) if x else None: a zero becomes None; NaN is truthy and stays
FloatOrNone(x) == IF Truthy(x) THEN x ELSE None

\* the dict fetch_motherduck_data builds from one row of the query result
ConvertRow(raw) ==
  MdRow(FloatOrNone(DfValue(raw.latest_eod_close)),
        FloatOrNone(DfValue(raw.prev_close)),
        FloatOrNone(DfValue(raw.ytd_start_price)),
        FloatOrNone(DfValue(raw.year_ago_price)),
        FloatOrNone(DfValue(raw.week_52_high)),
        FloatOrNone(DfValue(raw.week_52_low)))

Tickers == {"AAPL", "MSFT"}

\* f"{ticker}.US" as a dict key
UsKey(ticker) == StrKey(ticker \o ".US")

NoMd == [some |-> FALSE, cache_date |-> None, data |-> EmptyDict]
Md(date, data) == [some |-> TRUE, cache_date |-> date, data |-> data]

NoPricesFile == [kind |-> "none", data |-> EmptyDict]
CorruptPricesFile == [kind |-> "corrupt", data |-> EmptyDict]

\* CacheManager._load_current_prices
_load_current_prices(pf) == IF pf.kind = "json" THEN pf.data ELSE EmptyDict

\* The writes of current_prices.json explored: the write succeeds.
PricesWriteOutcomes == {"ok"}

\* CacheManager._save_current_prices: errors are logged and swallowed
_save_current_prices(pf, current_prices, outcome) ==
  CASE outcome = "ok" -> [kind |-> "json", data |-> current_prices]
    [] outcome = "open_fails" -> pf
    [] outcome = "dump_fails" -> CorruptPricesFile

\* CacheManager._load_motherduck_data: today's cache record, else None
_load_motherduck_data(fs, t) ==
  LET f == fs[MOTHERDUCK_DATA_FILE] IN
  IF f.kind = "json" /\ f.cache_date = Today(t)
  THEN Md(f.cache_date, json_load(f.data))
  ELSE NoMd

\* CacheManager._save_motherduck_data: the file is written first and
\* self.motherduck_data is assigned only if the write did not raise.
_save_motherduck_data(m, fs, data, t, outcome) ==
  [files |-> [fs EXCEPT ![MOTHERDUCK_DATA_FILE] =
                 WriteFile(fs[MOTHERDUCK_DATA_FILE], Today(t), data, outcome)],
   mgr |-> IF outcome = "ok"
           THEN [m EXCEPT !.motherduck_data = Md(Today(t), data)]
           ELSE m]

\* CacheManager.__init__
NewManager(fs, pf, t) ==
  [current_prices |-> _load_current_prices(pf),
   motherduck_data |-> _load_motherduck_data(fs, t)]

\* a manager that never finds its data valid
is_motherduck_cache_valid_never(m, t) ==
  FALSE

\* CacheManager.is_motherduck_cache_valid
is_motherduck_cache_valid(m, t) ==
  m.motherduck_data.some /\ m.motherduck_data.cache_date = Today(t)

\* CacheManager.get_motherduck_data(ticker): the ticker's row, or None
get_motherduck_data(m, ticker) ==
  IF m.motherduck_data.some /\ UsKey(ticker) \in DOMAIN m.motherduck_data.data
  THEN SomeRow(m.motherduck_data.data[UsKey(ticker)])
  ELSE NoRow

\* CacheManager.get_all_motherduck_data: a copy of the data whatever its date
get_all_motherduck_data(m) ==
  IF m.motherduck_data.some
  THEN [some |-> TRUE, data |-> m.motherduck_data.data,
        cache_date |-> m.motherduck_data.cache_date]
  ELSE [some |-> FALSE, data |-> EmptyDict, cache_date |-> None]

\* What the data source does for one query: it answers, the token is not
\* set, the connection fails, or the query fails.
UpstreamOutcomes == {"ok", "no_token", "unreachable", "query_fails"}

\* CacheManager.fetch_motherduck_data(tickers).  dbrows: the rows of the
\* data source, symbol -> prices, for the symbols it has on its latest
\* date.  exc is the exception raised to the caller.
fetch_motherduck_data(m, fs, tickers, t, upstream, dbrows, outcome) ==
  IF is_motherduck_cache_valid(m, t)
  THEN [mgr |-> m, files |-> fs, exc |-> "none", queried |-> FALSE,
        data |-> m.motherduck_data.data, cache_date |-> Today(t)]
  ELSE IF upstream = "no_token"
  THEN [mgr |-> m, files |-> fs, exc |-> "ValueError", queried |-> FALSE,
        data |-> EmptyDict, cache_date |-> None]
  ELSE IF upstream = "unreachable"
  THEN [mgr |-> m, files |-> fs, exc |-> "ConnectionError", queried |-> FALSE,
        data |-> EmptyDict, cache_date |-> None]
  ELSE IF upstream = "query_fails"
  THEN [mgr |-> m, files |-> fs, exc |-> "QueryError", queried |-> TRUE,
        data |-> EmptyDict, cache_date |-> None]
  ELSE
    LET syms == tickers \cap DOMAIN dbrows
        data == [k \in {UsKey(sym) : sym \in syms} |->
                   ConvertRow(dbrows[CHOOSE sym \in syms : UsKey(sym) = k])]
        sv == _save_motherduck_data(m, fs, data, t, outcome)
    IN [mgr |-> sv.mgr, files |-> sv.files, exc |-> "none", queried |-> TRUE,
        data |-> data, cache_date |-> Today(t)]

\* A quote for one ticker: a price, or None when yfinance has nothing
NoQuote == None

PriceEntry(price, now) == [price |-> price, last_updated |-> now]

\* a refresh that takes every requested ticker for stale
StaleTickers_every(m, tickers, now) ==
  tickers

\* the tickers update_current_prices / needs_price_refresh find missing or
\* older than the TTL
StaleTickers(m, tickers, now) ==
  {tk \in tickers :
      \/ tk \notin DOMAIN m.current_prices
      \/ (now - m.current_prices[tk].last_updated) > CURRENT_PRICE_TTL}

\* CacheManager.needs_price_refresh
needs_price_refresh(m, tickers, now) == StaleTickers(m, tickers, now) # {}

\* CacheManager.update_current_prices(tickers, force); quotes: what
\* fetch_price returns for each ticker.
update_current_prices(m, pf, tickers, force, now, quotes, outcome) ==
  LET fetched == IF force THEN tickers ELSE StaleTickers(m, tickers, now)
      got == {tk \in fetched : quotes[tk] # NoQuote}
      cp == [tk \in (DOMAIN m.current_prices) \cup got |->
               IF tk \in got THEN PriceEntry(quotes[tk], now)
               ELSE m.current_prices[tk]]
  IN IF ~force /\ fetched = {}
     THEN [mgr |-> m, pricesFile |-> pf, fetched |-> {}]
     ELSE [mgr |-> [m EXCEPT !.current_prices = cp],
           pricesFile |-> _save_current_prices(pf, cp, outcome),
           fetched |-> fetched]

\* CacheManager.get_current_price
get_current_price(m, ticker) ==
  IF ticker \in DOMAIN m.current_prices
  THEN [some |-> TRUE, price |-> m.current_prices[ticker].price]
  ELSE [some |-> FALSE, price |-> None]

-----------------------------------------------------------------------------
(* Portfolio performance (api/portfolio_performance.py) *)

NoPrice == [some |-> FALSE, price |-> None]
SomePrice(p) == [some |-> TRUE, price |-> p]

Holding(symbol, cost_basis, shares) ==
  [symbol |-> symbol, cost_basis |-> cost_basis, shares |-> shares]

\* The outcome of evaluating an expression: its value, or the exception.
Ok(v) == [exc |-> "none", val |-> v]
Raise(e) == [exc |-> e, val |-> Float(0)]

\* round(num / den * 100, 2) and round(num / den * 100, 1) on floats: a
\* NaN divisor gives NaN, a zero divisor raises, a NaN dividend gives NaN.
\* num_nan and den_nan tell whether a NaN went into the operand.
PyPct2(num_nan, den_nan, num, den) ==
  IF den_nan THEN Ok(FloatNaN)
  ELSE IF den = 0 THEN Raise("ZeroDivisionError")
  ELSE IF num_nan THEN Ok(FloatNaN)
  ELSE Ok(Float(Pct2(num, den)))
PyPct1(num_nan, den_nan, num, den) ==
  IF den_nan THEN Ok(FloatNaN)
  ELSE IF den = 0 THEN Raise("ZeroDivisionError")
  ELSE IF num_nan THEN Ok(FloatNaN)
  ELSE Ok(Float(Pct1(num, den)))

\* the first exception of a sequence of outcomes, "none" if there is none
RECURSIVE FirstExc(_)
FirstExc(outs) ==
  IF outs = <<>> THEN "none"
  ELSE IF Head(outs).exc # "none" THEN Head(outs).exc
  ELSE FirstExc(Tail(outs))

\* daily_change_pct, ytd_pct and yoy_pct: 0.0 unless the reference price
\* is truthy
ChangePct(current_price, reference) ==
  IF Truthy(reference)
  THEN PyPct2(reference = NaN, reference = NaN,
              current_price - reference, reference)
  ELSE Ok(Float(0))

\* port_gain_pct: the division by cost_basis has no guard
PortGainPct(current_price, cost_basis) ==
  PyPct2(FALSE, FALSE, current_price - cost_basis, cost_basis)

PctBelow52wkHigh(current_price, md) ==
  IF Truthy(md.week_52_high)
  THEN PyPct2(md.week_52_high = NaN, md.week_52_high = NaN,
              md.week_52_high - current_price, md.week_52_high)
  ELSE Ok(Float(0))

\* chan_range_pct
ChanRangePct(current_price, md) ==
  IF Truthy(md.week_52_high) /\ Truthy(md.week_52_low)
     /\ PyNotEqual(md.week_52_high, md.week_52_low)
  THEN PyPct1(md.week_52_low = NaN,
              md.week_52_high = NaN \/ md.week_52_low = NaN,
              current_price - md.week_52_low,
              md.week_52_high - md.week_52_low)
  ELSE Ok(Float(0))

\* the metrics of one holding, in the order the loop body computes them
PerfMetrics(h, current_price, md) ==
  [daily_change_pct |-> ChangePct(current_price, md.prev_close),
   ytd_pct |-> ChangePct(current_price, md.ytd_start_price),
   yoy_pct |-> ChangePct(current_price, md.year_ago_price),
   port_gain_pct |-> PortGainPct(current_price, h.cost_basis),
   pct_below_52wk_high |-> PctBelow52wkHigh(current_price, md),
   chan_range_pct |-> ChanRangePct(current_price, md)]

\* the exception the loop body raises while it computes the metrics m,
\* "none" if it completes
PerfRecordExc(m) ==
  FirstExc(<<m.daily_change_pct, m.ytd_pct, m.yoy_pct, m.port_gain_pct,
             m.pct_below_52wk_high, m.chan_range_pct>>)

\* the dict appended to results
PerfRecord(h, current_price, m) ==
  [ticker |-> h.symbol,
   cost_basis |-> h.cost_basis,
   current_price |-> current_price,
   position_value |-> current_price * h.shares,
   daily_change_pct |-> m.daily_change_pct.val,
   ytd_pct |-> m.ytd_pct.val,
   yoy_pct |-> m.yoy_pct.val,
   port_gain_pct |-> m.port_gain_pct.val,
   pct_below_52wk_high |-> m.pct_below_52wk_high.val,
   chan_range_pct |-> m.chan_range_pct.val]

NoResults == [exc |-> "none", results |-> <<>>, total_portfolio_value |-> 0]

\* the end of the loop body: the position value is added to the total and
\* the record is appended, unless a metric raised
PerfAppend(acc, h, current_price, m) ==
  [exc |-> PerfRecordExc(m),
   results |-> IF PerfRecordExc(m) = "none"
               THEN Append(acc.results, PerfRecord(h, current_price, m))
               ELSE acc.results,
   total_portfolio_value |->
     acc.total_portfolio_value + current_price * h.shares]

\* the loop body with the position value added to the total before the
\* MotherDuck row is looked up
PerfStep_total_first(acc, h, price_data, md) ==
  IF acc.exc # "none" THEN acc
  ELSE IF ~price_data.some THEN acc
  ELSE IF ~md.some
  THEN [acc EXCEPT !.total_portfolio_value = @ + price_data.price * h.shares]
  ELSE PerfAppend(acc, h, price_data.price,
                  PerfMetrics(h, price_data.price, md.row))

\* One pass of the loop over request.holdings: a holding with no current
\* price or no MotherDuck row is skipped (continue); otherwise its position
\* value is added to the total and its record is appended.
PerfStep(acc, h, price_data, md) ==
  IF acc.exc # "none" THEN acc
  ELSE IF ~price_data.some THEN acc
  ELSE IF ~md.some THEN acc
  ELSE PerfAppend(acc, h, price_data.price,
                  PerfMetrics(h, price_data.price, md.row))

\* Step 3.  priceOf and mdOf are the lookups get_current_price and
\* get_motherduck_data.
RECURSIVE PerfLoop(_, _, _, _)
PerfLoop(acc, holdings, priceOf, mdOf) ==
  IF holdings = <<>> THEN acc
  ELSE PerfLoop(PerfStep(acc, Head(holdings), priceOf[Head(holdings).symbol],
                         mdOf[Head(holdings).symbol]),
                Tail(holdings), priceOf, mdOf)

\* port_pct of one result
PortPct(position_value, total) ==
  IF total > 0 THEN Pct2(position_value, total) ELSE 0

\* The second loop: every record gets its port_pct and loses its
\* position_value.  position_values keeps what the code deletes.
PerfPercentages(lp) ==
  [exc |-> lp.exc,
   data |-> [i \in 1..Len(lp.results) |->
               [ticker |-> lp.results[i].ticker,
                cost_basis |-> lp.results[i].cost_basis,
                current_price |-> lp.results[i].current_price,
                daily_change_pct |-> lp.results[i].daily_change_pct,
                ytd_pct |-> lp.results[i].ytd_pct,
                yoy_pct |-> lp.results[i].yoy_pct,
                port_gain_pct |-> lp.results[i].port_gain_pct,
                pct_below_52wk_high |-> lp.results[i].pct_below_52wk_high,
                chan_range_pct |-> lp.results[i].chan_range_pct,
                port_pct |-> PortPct(lp.results[i].position_value,
                                     lp.total_portfolio_value)]],
   position_values |->
     [i \in 1..Len(lp.results) |-> lp.results[i].position_value],
   total_portfolio_value |-> lp.total_portfolio_value]

\* Steps 3 and 4 of calculate_portfolio_performance: the records with
\* their port_pct and the total.
PerfResponse(holdings, priceOf, mdOf) ==
  PerfPercentages(PerfLoop(NoResults, holdings, priceOf, mdOf))

-----------------------------------------------------------------------------
(* The cache files and the manager as a state machine *)

\* Payloads handed to save_cache: dicts with a string key, an int key, both
\* or none.  save_benchmarks_cache takes a Dict[str, Any].
PyKeys == {StrKey("total"), IntKey("1")}
Payloads ==
  {d \in UNION {[ks -> 0..MaxPayloadVal] : ks \in SUBSET PyKeys} :
      Cardinality(DOMAIN d) <= 1}
StrPayloads == {d \in Payloads : \A k \in DOMAIN d : k.kind = "str"}

NoSave == [valid |-> FALSE, date |-> None, payload |-> EmptyDict]

\* history of a write of file p with payload d
AfterWrite(sv, p, date, d, outcome) ==
  CASE outcome = "ok" ->
         [sv EXCEPT ![p] = [valid |-> TRUE, date |-> date, payload |-> d]]
    [] outcome = "open_fails" -> sv
    [] outcome = "dump_fails" -> [sv EXCEPT ![p] = NoSave]

AllFiles ==
  FileNames \cup {BENCHMARKS_CACHE_FILE, MOTHERDUCK_DATA_FILE}
            \cup {get_cache_file_path(m) : m \in ListModules}

NoCall == [fn |-> "none"]

\* no thread holds the lock
Free == 0

\* the requests are served one at a time
NoThreads ==
  /\ threads = <<>>
  /\ lock = Free
  /\ queries = 0

\* no response is pending: the last call has returned to its caller
Idle == [op |-> "idle"]

Init ==
  /\ clock = 0
  /\ files = [p \in AllFiles |-> NoFile]
  /\ pricesFile = NoPricesFile
  /\ mgr = NewManager([p \in AllFiles |-> NoFile], NoPricesFile, 0)
  /\ saved = [p \in AllFiles |-> NoSave]
  /\ call = NoCall
  /\ ret = Idle
  /\ cache_store = EmptyDict
  /\ NoThreads

\* time passes within the day
Tick ==
  /\ ret = Idle
  /\ (clock % SecondsPerDay) + TickStep <= MaxTicks * TickStep
  /\ clock' = clock + TickStep
  /\ UNCHANGED <<files, pricesFile, mgr, saved, call, ret, cache_store, conc>>

\* midnight: the calendar date changes
NextDay ==
  /\ ret = Idle
  /\ Today(clock) + 1 < MaxDay
  /\ clock' = (Today(clock) + 1) * SecondsPerDay
  /\ UNCHANGED <<files, pricesFile, mgr, saved, call, ret, cache_store, conc>>

SaveCache ==
  /\ ret = Idle
  /\ \E m \in ModuleNames, d \in Payloads, o \in WriteOutcomes :
       LET r == save_cache(files, m, d, clock, o) IN
       /\ files' = r.files
       /\ saved' = AfterWrite(saved, get_cache_file_path(m), Today(clock), d, o)
       /\ ret' = [op |-> "save_cache", file |-> get_cache_file_path(m),
                  ok |-> r.ok]
       /\ UNCHANGED <<clock, pricesFile, mgr, call, cache_store, conc>>

LoadCache ==
  /\ ret = Idle
  /\ \E m \in ModuleNames :
       LET r == load_cache(files, m, clock) IN
       /\ ret' = [op |-> "load_cache", file |-> get_cache_file_path(m),
                  ok |-> TRUE, hit |-> r.hit, val |-> r.val]
       /\ UNCHANGED <<clock, files, pricesFile, mgr, saved, call, cache_store, conc>>

ClearCache ==
  /\ ret = Idle
  /\ \E m \in ModuleNames :
       LET r == clear_cache(files, m) IN
       /\ files' = r.files
       /\ saved' = [saved EXCEPT ![get_cache_file_path(m)] = NoSave]
       /\ ret' = [op |-> "clear_cache", file |-> get_cache_file_path(m),
                  ok |-> r.ok]
       /\ UNCHANGED <<clock, pricesFile, mgr, call, cache_store, conc>>

ClearAllCaches ==
  LET r == clear_all_caches(files) IN
  /\ ret = Idle
  /\ files' = r.files
  /\ saved' = [p \in AllFiles |-> NoSave]
  /\ ret' = [op |-> "clear_cache", file |-> "*_data.json",
             ok |-> r.ok]
  /\ UNCHANGED <<clock, pricesFile, mgr, call, cache_store, conc>>

SaveBenchmarksCache ==
  /\ ret = Idle
  /\ \E d \in StrPayloads, o \in WriteOutcomes :
       /\ files' = save_benchmarks_cache(files, d, clock, o)
       /\ saved' = AfterWrite(saved, BENCHMARKS_CACHE_FILE, Today(clock), d, o)
       /\ ret' = [op |-> "save_benchmarks_cache", file |-> BENCHMARKS_CACHE_FILE,
                  ok |-> (o = "ok")]
       /\ UNCHANGED <<clock, pricesFile, mgr, call, cache_store, conc>>

LoadCachedBenchmarks ==
  LET r == load_cached_benchmarks(files, clock) IN
  /\ ret = Idle
  /\ ret' = [op |-> "load_cached_benchmarks", file |-> BENCHMARKS_CACHE_FILE,
             ok |-> TRUE, hit |-> r.hit, val |-> r.val]
  /\ UNCHANGED <<clock, files, pricesFile, mgr, saved, call, cache_store, conc>>

\* save_cache(m, d) of a module of the listing
SaveModuleCache ==
  /\ ret = Idle
  /\ \E m \in ListModules, d \in StrPayloads, o \in WriteOutcomes :
       LET r == save_cache(files, m, d, clock, o) IN
       /\ files' = r.files
       /\ saved' = AfterWrite(saved, get_cache_file_path(m), Today(clock), d, o)
       /\ ret' = [op |-> "save_cache", file |-> get_cache_file_path(m),
                  ok |-> r.ok]
       /\ UNCHANGED <<clock, pricesFile, mgr, call, cache_store, conc>>

GetCacheInfo ==
  /\ ret = Idle
  /\ \E m \in ListModules :
       ret' = [op |-> "get_cache_info", module_name |-> m,
               info |-> get_cache_info(files, m, clock)]
  /\ UNCHANGED <<clock, files, pricesFile, mgr, saved, call, cache_store, conc>>

ListAllCaches ==
  /\ ret = Idle
  /\ ret' = [op |-> "list_all_caches", caches |-> list_all_caches(files, clock)]
  /\ UNCHANGED <<clock, files, pricesFile, mgr, saved, call, cache_store, conc>>

\* the files and the history after a fetch_with_cache
FetchReturns(r, m, fetch, force_refresh, o) ==
  /\ files' = r.files
  /\ saved' = IF r.called /\ r.exc = "none" /\ fetch.exc = "none"
              THEN AfterWrite(saved, get_cache_file_path(m), Today(clock),
                              r.val, o)
              ELSE saved
  /\ ret' = [op |-> "fetch_with_cache", file |-> get_cache_file_path(m),
             module_name |-> m, force_refresh |-> force_refresh,
             fetch |-> fetch, write |-> o, called |-> r.called,
             exc |-> r.exc, val |-> r.val]

\* an endpoint calls fetch_with_cache; a write is tried only after a fetch
FetchWithCache ==
  /\ ret = Idle
  /\ \E m \in ModuleNames, force_refresh \in BOOLEAN :
     \E fetch \in {FetchRaises} \cup {Fetched(d) : d \in Payloads} :
     \E o \in IF fetch.exc = "none" THEN WriteOutcomes ELSE {"ok"} :
       FetchReturns(fetch_with_cache(files, m, fetch, force_refresh, clock, o),
                    m, fetch, force_refresh, o)
  /\ UNCHANGED <<clock, pricesFile, mgr, call, cache_store, conc>>

\* a new process constructs its CacheManager (cache_manager = CacheManager())
NewCacheManager ==
  /\ ret = Idle
  /\ mgr' = NewManager(files, pricesFile, clock)
  /\ ret' = [op |-> "_load_motherduck_data", file |-> MOTHERDUCK_DATA_FILE,
             ok |-> TRUE, hit |-> mgr'.motherduck_data.some,
             val |-> mgr'.motherduck_data.data]
  /\ UNCHANGED <<clock, files, pricesFile, saved, call, cache_store, conc>>

\* the non-empty ticker lists of a request
TickerSets == (SUBSET Tickers) \ {{}}

\* what the data source and the file system do during one fetch; choices
\* that the call does not reach are not enumerated
UpstreamFor(m, t) ==
  IF is_motherduck_cache_valid(m, t) THEN {"ok"} ELSE UpstreamOutcomes
\* The rows the data source holds: every ticker has the same full row.
DbRow == MdRow(2, 1, 1, 1, 3, 1)
DbRows == [sym \in Tickers |-> DbRow]
WriteFor(m, t, upstream) ==
  IF is_motherduck_cache_valid(m, t) \/ upstream # "ok"
  THEN {"ok"} ELSE WriteOutcomes

FetchMotherduckData ==
  /\ ret = Idle
  /\ \E tickers \in TickerSets :
     \E upstream \in UpstreamFor(mgr, clock) :
     \E o \in WriteFor(mgr, clock, upstream) :
       LET r == fetch_motherduck_data(mgr, files, tickers, clock, upstream,
                                      DbRows, o)
       IN
       /\ mgr' = r.mgr
       /\ files' = r.files
       /\ saved' = IF r.queried /\ r.exc = "none"
                   THEN AfterWrite(saved, MOTHERDUCK_DATA_FILE, Today(clock),
                                   r.data, o)
                   ELSE saved
       /\ ret' = [op |-> "fetch_motherduck_data", exc |-> r.exc,
                  queried |-> r.queried]
       /\ UNCHANGED <<clock, pricesFile, call, cache_store, conc>>

\* the pending response is handed to the caller
Return ==
  /\ ret # Idle
  /\ ret' = Idle
  /\ UNCHANGED <<clock, files, pricesFile, mgr, saved, call, cache_store, conc>>

Next ==
  \/ Return
  \/ Tick
  \/ NextDay
  \/ SaveCache
  \/ LoadCache
  \/ ClearCache
  \/ ClearAllCaches
  \/ SaveBenchmarksCache
  \/ LoadCachedBenchmarks
  \/ NewCacheManager
  \/ FetchMotherduckData
  \/ FetchWithCache

Spec == Init /\ [][Next]_vars

\* The cache directory and its listing
NextList ==
  \/ Return
  \/ NextDay
  \/ SaveModuleCache
  \/ ClearCache
  \/ ClearAllCaches
  \/ GetCacheInfo
  \/ ListAllCaches

SpecList == Init /\ [][NextList]_vars

-----------------------------------------------------------------------------
(* The request handlers on a long-lived CacheManager *)

\* the lookups of step 3 on the manager m
PriceLookup(m) ==
  [tk \in Tickers |-> get_current_price(m, tk)]
MdLookup(m) ==
  [tk \in Tickers |-> get_motherduck_data(m, tk)]

ReqHoldings == {Holding(sym, 2, 1) : sym \in Tickers}

\* sequences of length 1 .. n over S without repetition
InjSeqs(S, n) ==
  {q \in UNION {[1..k -> S] : k \in 1..n} :
      \A i, j \in 1..Len(q) : i # j => q[i] # q[j]}

Requests == InjSeqs(ReqHoldings, MaxHoldings)

SymbolsOf(holdings) == {holdings[i].symbol : i \in 1..Len(holdings)}

QuotesFor(tickers) == [tickers -> {NoQuote} \cup (1..MaxQuote)]

\* Step 1 of calculate_portfolio_performance: MotherDuck data, once per day
PerfStep1(m, fs, tickers, t, upstream, dbrows, o) ==
  IF ~is_motherduck_cache_valid(m, t)
  THEN fetch_motherduck_data(m, fs, tickers, t, upstream, dbrows, o)
  ELSE [mgr |-> m, files |-> fs, exc |-> "none", queried |-> FALSE,
        data |-> EmptyDict, cache_date |-> None]

\* the tickers step 2 asks the price provider for
PerfFetched(s1, tickers, force_refresh, t) ==
  IF s1.exc # "none" THEN {}
  ELSE IF force_refresh THEN tickers
  ELSE StaleTickers(s1.mgr, tickers, t)

\* Step 2: current prices (auto after the TTL, or forced)
PerfStep2(s1, pf, tickers, force_refresh, t, quotes, po) ==
  IF force_refresh \/ needs_price_refresh(s1.mgr, tickers, t)
  THEN update_current_prices(s1.mgr, pf, tickers, force_refresh, t, quotes, po)
  ELSE [mgr |-> s1.mgr, pricesFile |-> pf, fetched |-> {}]

\* The response, and the state the call leaves: s1 and s2 are the outcomes
\* of steps 1 and 2, resp that of steps 3 and 4.
PerfAnswer(s1, s2, resp, holdings, force_refresh) ==
  [mgr |-> s2.mgr, files |-> s1.files, pricesFile |-> s2.pricesFile,
   wrote |-> s1.queried, written |-> s1.data,
   ret |-> [op |-> "calculate_portfolio_performance",
            exc |-> resp.exc, request |-> holdings,
            force_refresh |-> force_refresh, queried |-> s1.queried,
            fetched |-> s2.fetched,
            data |-> resp.data,
            position_values |-> resp.position_values,
            total_portfolio_value |-> resp.total_portfolio_value,
            motherduck_cache_date |-> s2.mgr.motherduck_data.cache_date]]

\* steps 3 and 4 on the manager that step 2 left
PerfAfterStep2(s1, s2, holdings, force_refresh) ==
  PerfAnswer(s1, s2,
             PerfResponse(holdings, PriceLookup(s2.mgr), MdLookup(s2.mgr)),
             holdings, force_refresh)

\* what follows step 1: its exception reaches the caller
PerfAfterStep1(s1, pf, holdings, force_refresh, t, quotes, po) ==
  IF s1.exc # "none"
  THEN [mgr |-> s1.mgr, files |-> s1.files, pricesFile |-> pf,
        wrote |-> FALSE, written |-> EmptyDict,
        ret |-> [op |-> "calculate_portfolio_performance",
                 exc |-> s1.exc, request |-> holdings,
                 force_refresh |-> force_refresh, queried |-> s1.queried,
                 fetched |-> {}]]
  ELSE PerfAfterStep2(s1,
                      PerfStep2(s1, pf, SymbolsOf(holdings), force_refresh, t,
                                quotes, po),
                      holdings, force_refresh)

\* calculate_portfolio_performance(request, force_refresh): the state after
\* the call and its outcome.
calculate_portfolio_performance(m, fs, pf, holdings, force_refresh, t, upstream, dbrows, o, quotes, po) ==
  PerfAfterStep1(PerfStep1(m, fs, SymbolsOf(holdings), t, upstream, dbrows, o),
                 pf, holdings, force_refresh, t, quotes, po)

\* the call r returns: the manager and the files are as it left them
PerformanceReturns(r, o) ==
  /\ mgr' = r.mgr
  /\ files' = r.files
  /\ pricesFile' = r.pricesFile
  /\ saved' = IF r.wrote
              THEN AfterWrite(saved, MOTHERDUCK_DATA_FILE, Today(clock),
                              r.written, o)
              ELSE saved
  /\ ret' = r.ret

CalculatePortfolioPerformance ==
  /\ ret = Idle
  /\ \E holdings \in Requests, force_refresh \in BOOLEAN :
     \E upstream \in UpstreamFor(mgr, clock) :
     \E o \in WriteFor(mgr, clock, upstream) :
     \E quotes \in QuotesFor(PerfFetched(
           PerfStep1(mgr, files, SymbolsOf(holdings), clock, upstream, DbRows, o),
           SymbolsOf(holdings), force_refresh, clock)) :
     \E po \in PricesWriteOutcomes :
       /\ PerformanceReturns(
            calculate_portfolio_performance(mgr, files, pricesFile, holdings,
              force_refresh, clock, upstream, DbRows, o, quotes, po), o)
       /\ UNCHANGED <<clock, call, cache_store, conc>>

-----------------------------------------------------------------------------
(* Portfolio allocation (api/portfolio_allocation.py) *)

\* cache_manager.get_cache_manager(): the process-wide CacheManager
get_cache_manager(m) == m

\* k.replace('.US', '') on a key of the data
StripUS(k) ==
  CASE k = UsKey("AAPL") -> "AAPL"
    [] k = UsKey("MSFT") -> "MSFT"
    [] OTHER -> k.name

AllocItem(symbol, shares) == [symbol |-> symbol, shares |-> shares]
AllocItems == {AllocItem(sym, 1) : sym \in Tickers}
AllocRequests == {<<>>} \cup InjSeqs(AllocItems, MaxHoldings)

\* portfolio_lookup[symbol]['shares']: the last item of a symbol wins
LookupShares(portfolio, symbol) ==
  LET idx == {i \in 1..Len(portfolio) : portfolio[i].symbol = symbol}
      last == CHOOSE i \in idx : \A j \in idx : j <= i
  IN portfolio[last].shares

RECURSIVE SumOver(_, _)
SumOver(f, S) ==
  IF S = {} THEN 0
  ELSE LET x == CHOOSE y \in S : TRUE IN f[x] + SumOver(f, S \ {x})

\* The body of calculate_portfolio_allocation on the data it settled on:
\* the company pie, symbol -> round(port_pct, 2).  A symbol whose
\* latest_eod_close is None makes None * shares raise a TypeError; one
\* whose latest_eod_close is NaN makes the total NaN, and "total_value > 0"
\* false.
AllocCompany(stock_data, portfolio) ==
  LET symbols == SymbolsOf(portfolio)
      keys == {k \in DOMAIN stock_data : StripUS(k) \in symbols}
      value == [k \in keys |->
                  stock_data[k].latest_eod_close
                    * LookupShares(portfolio, StripUS(k))]
      total_value == SumOver(value, keys)
      total_nan == \E k \in keys : stock_data[k].latest_eod_close = NaN
  IN IF \E k \in keys : stock_data[k].latest_eod_close = None
     THEN [exc |-> "TypeError", company |-> EmptyDict]
     ELSE [exc |-> "none",
           company |-> [k \in keys |-> IF ~total_nan /\ total_value > 0
                                       THEN Pct2(value[k], total_value)
                                       ELSE 0]]

\* the response built from the data the handler settled on
AllocAnswer(a, portfolio, data_date) ==
  [op |-> "calculate_portfolio_allocation", exc |-> a.exc,
   request |-> portfolio, company |-> a.company, data_date |-> data_date]

\* "not stock_data or not all(f'{s}.US' in stock_data for s in symbols)":
\* "not stock_data" holds for None and for an empty dict
AllocIncomplete(cached, symbols) ==
  \/ ~cached.some
  \/ cached.data = EmptyDict
  \/ \E sym \in symbols : UsKey(sym) \notin DOMAIN cached.data

\* the handler goes on after r, the call of fetch_motherduck_data
AllocFetched(r, portfolio, o) ==
  /\ mgr' = r.mgr
  /\ files' = r.files
  /\ saved' = IF r.queried /\ r.exc = "none"
              THEN AfterWrite(saved, MOTHERDUCK_DATA_FILE, Today(clock),
                              r.data, o)
              ELSE saved
  /\ ret' = IF r.exc # "none"
            THEN [op |-> "calculate_portfolio_allocation",
                  exc |-> r.exc, request |-> portfolio]
            ELSE AllocAnswer(AllocCompany(r.data, portfolio), portfolio,
                             r.cache_date)

\* the handler on cached, the data get_all_motherduck_data returned
AllocOn(cached, portfolio) ==
  IF portfolio = <<>>
  THEN /\ ret' = [op |-> "calculate_portfolio_allocation",
                  exc |-> "ValueError", request |-> portfolio]
       /\ UNCHANGED <<clock, files, pricesFile, mgr, saved, call, cache_store, conc>>
  ELSE IF ~AllocIncomplete(cached, SymbolsOf(portfolio))
  THEN /\ ret' = AllocAnswer(AllocCompany(cached.data, portfolio), portfolio,
                             cached.cache_date)
       /\ UNCHANGED <<clock, files, pricesFile, mgr, saved, call, cache_store, conc>>
  ELSE
    \E upstream \in UpstreamFor(mgr, clock) :
    \E o \in WriteFor(mgr, clock, upstream) :
      /\ AllocFetched(fetch_motherduck_data(get_cache_manager(mgr), files,
                        SymbolsOf(portfolio), clock, upstream, DbRows, o),
                      portfolio, o)
      /\ UNCHANGED <<clock, pricesFile, call, cache_store, conc>>

\* calculate_portfolio_allocation(request)
CalculatePortfolioAllocation ==
  /\ ret = Idle
  /\ \E portfolio \in AllocRequests :
       AllocOn(get_all_motherduck_data(get_cache_manager(mgr)), portfolio)

\* the prices are returned: the manager and its file are as r left them
PricesReturn(r, tickers, force, quotes) ==
  /\ mgr' = r.mgr
  /\ pricesFile' = r.pricesFile
  /\ ret' = [op |-> "update_current_prices", tickers |-> tickers,
             force |-> force, quotes |-> quotes, fetched |-> r.fetched]

\* a handler calls update_current_prices(tickers, force)
UpdateCurrentPrices ==
  /\ ret = Idle
  /\ \E tickers \in TickerSets, force \in BOOLEAN :
     \E quotes \in QuotesFor(IF force THEN tickers
                             ELSE StaleTickers(mgr, tickers, clock)) :
       PricesReturn(update_current_prices(mgr, pricesFile, tickers, force,
                                          clock, quotes, "ok"),
                    tickers, force, quotes)
  /\ UNCHANGED <<clock, files, saved, call, cache_store, conc>>

NextMgr ==
  \/ Return
  \/ NextDay
  \/ UpdateCurrentPrices
  \/ NewCacheManager
  \/ CalculatePortfolioPerformance
  \/ CalculatePortfolioAllocation

SpecMgr == Init /\ [][NextMgr]_vars

-----------------------------------------------------------------------------
(* The portfolio endpoint of api/index.py *)

CACHE_TTL_MOTHERDUCK == 24 * 60 * 60
CACHE_TTL_PRICES == 5 * 60

\* A date of a price row, as far as the calculators tell dates apart: in
\* the current year; before it but less than 365 days ago; 365 days ago or
\* more.  January 1st is always less than 365 days ago.
Periods == <<"this_year", "last_12_months", "older">>
PeriodRank(p) == CHOOSE i \in 1..3 : Periods[i] = p

CacheKey(prefix, symbol) == prefix \o symbol

\* get_from_cache(key, ttl): the data of an entry younger than ttl, else
\* None; an expired entry is deleted
get_from_cache(store, key, ttl, now) ==
  IF key \notin DOMAIN store
  THEN [store |-> store, hit |-> FALSE]
  ELSE IF now - store[key].timestamp < ttl
  THEN [store |-> store, hit |-> TRUE]
  ELSE [store |-> [k \in (DOMAIN store) \ {key} |-> store[k]], hit |-> FALSE]

set_cache(store, key, data, now) ==
  [k \in (DOMAIN store) \cup {key} |->
     IF k = key THEN [data |-> data, timestamp |-> now] ELSE store[k]]

\* index.get_motherduck_data(symbol): the price rows, newest first.  rows:
\* what the query returns.  A failure of the connection or of the query is
\* caught and gives no rows.
index_get_motherduck_data(store, symbol, now, upstream, rows) ==
  LET key == CacheKey("md_", symbol)
      c == get_from_cache(store, key, CACHE_TTL_MOTHERDUCK, now)
      prices == [i \in 1..Len(rows) |->
                   [period |-> rows[i].period,
                    price |-> DfValue(rows[i].price)]]
  IN IF c.hit THEN [store |-> c.store, prices |-> c.store[key].data]
     ELSE IF upstream # "ok" THEN [store |-> c.store, prices |-> <<>>]
     ELSE [store |-> set_cache(c.store, key, prices, now), prices |-> prices]

\* index.get_current_price(symbol): quote is what yfinance has, or None
index_get_current_price(store, symbol, now, quote) ==
  LET key == CacheKey("price_", symbol)
      c == get_from_cache(store, key, CACHE_TTL_PRICES, now)
  IN IF c.hit /\ Truthy(c.store[key].data)
     THEN [store |-> c.store, price |-> c.store[key].data]
     ELSE IF Truthy(quote)
     THEN [store |-> set_cache(c.store, key, quote, now), price |-> quote]
     ELSE [store |-> c.store, price |-> None]

\* a > b and a < b on floats: false when either is NaN
PyGreater(a, b) == a # NaN /\ b # NaN /\ a > b
PyLess(a, b) == a # NaN /\ b # NaN /\ a < b

\* max(xs) and min(xs) of a non-empty list: the first element is kept until
\* a later one compares greater (less)
RECURSIVE PyMaxFrom(_, _)
PyMaxFrom(m, xs) ==
  IF xs = <<>> THEN m
  ELSE PyMaxFrom(IF PyGreater(Head(xs), m) THEN Head(xs) ELSE m, Tail(xs))
PyMax(xs) == PyMaxFrom(Head(xs), Tail(xs))

RECURSIVE PyMinFrom(_, _)
PyMinFrom(m, xs) ==
  IF xs = <<>> THEN m
  ELSE PyMinFrom(IF PyLess(Head(xs), m) THEN Head(xs) ELSE m, Tail(xs))
PyMin(xs) == PyMinFrom(Head(xs), Tail(xs))

ZeroMetrics(current_price) ==
  [current_price |-> current_price,
   daily_change_pct |-> Float(0), ytd_change_pct |-> Float(0),
   yoy_change_pct |-> Float(0), week_52_high |-> 0, week_52_low |-> 0,
   channel_range_52w |-> Float(0)]

\* index.calculate_metrics, given what get_current_price returned and
\* md_data['prices'] (newest first, as prices_sorted)
index_calculate_metrics(current_price, prices) ==
  IF ~Truthy(current_price) THEN ZeroMetrics(0)
  ELSE IF prices = <<>> THEN ZeroMetrics(current_price)
  ELSE
    LET InYear(r) == r.period = "this_year"
        YearAgo(r) == r.period = "older"
        Recent(r) == r.period # "older"
        ytd_prices == SelectSeq(prices, InYear)
        yoy_prices == SelectSeq(prices, YearAgo)
        recent == SelectSeq(prices, Recent)
        recent_prices == [i \in 1..Len(recent) |-> recent[i].price]
        week_52_high == IF recent_prices # <<>> THEN PyMax(recent_prices)
                        ELSE current_price
        week_52_low == IF recent_prices # <<>> THEN PyMin(recent_prices)
                       ELSE current_price
    IN [current_price |-> current_price,
        daily_change_pct |->
          IF Len(prices) >= 2
          THEN ChangePct(current_price, prices[2].price).val
          ELSE Float(0),
        ytd_change_pct |->
          IF ytd_prices # <<>>
          THEN ChangePct(current_price, ytd_prices[Len(ytd_prices)].price).val
          ELSE Float(0),
        yoy_change_pct |->
          IF yoy_prices # <<>>
          THEN ChangePct(current_price, yoy_prices[1].price).val
          ELSE Float(0),
        week_52_high |-> week_52_high,
        week_52_low |-> week_52_low,
        channel_range_52w |->
          IF PyGreater(week_52_high, week_52_low)
          THEN Float(Pct2(current_price - week_52_low,
                          week_52_high - week_52_low))
          ELSE Float(0)]

\* process_single_holding once md, the data of get_motherduck_data, and
\* cp, the price of get_current_price, are there.  result: the list of the
\* records that are not None, so one record here.
HoldingResult(holding, md, cp) ==
  [store |-> cp.store,
   result |-> <<[symbol |-> holding.symbol,
                 cost_basis |-> holding.cost_basis,
                 shares |-> holding.shares,
                 metrics |-> index_calculate_metrics(cp.price, md.prices)]>>]

HoldingPriced(holding, md, now, quote) ==
  HoldingResult(holding, md,
                index_get_current_price(md.store, holding.symbol, now, quote))

\* index.process_single_holding.  raises: something inside its try raises
\* (the data source and the price provider are caught further in; what is
\* left is, say, the KeyError of get_from_cache when another worker has
\* just deleted the expired entry).  The except clause logs and returns
\* None.
process_single_holding(store, holding, now, upstream, rows, quote, raises) ==
  IF raises THEN [store |-> store, result |-> <<>>]
  ELSE HoldingPriced(holding,
                     index_get_motherduck_data(store, holding.symbol, now,
                                               upstream, rows),
                     now, quote)

\* the result r of one holding joins the results gathered so far; a None is
\* filtered out
Gathered(acc, r) ==
  [store |-> r.store, results |-> acc.results \o r.result]

\* the holdings processed one after the other; results in request order
RECURSIVE ProcessHoldings(_, _, _, _, _, _, _)
ProcessHoldings(acc, holdings, now, upstream, rowsOf, quoteOf, raising) ==
  IF holdings = <<>> THEN acc
  ELSE ProcessHoldings(
         Gathered(acc, process_single_holding(acc.store, Head(holdings), now,
                         upstream, rowsOf[Head(holdings).symbol],
                         quoteOf[Head(holdings).symbol], Head(raising))),
         Tail(holdings), now, upstream, rowsOf, quoteOf, Tail(raising))

\* total_value and the portfolio_pct of every result
PositionValue(result) == result.metrics.current_price * result.shares

IndexTotal(results) ==
  SumSeq([i \in 1..Len(results) |-> PositionValue(results[i])])

IndexPercentages(results, total_value, holdings) ==
  [op |-> "portfolio_performance", exc |-> "none", request |-> holdings,
   data |-> [i \in 1..Len(results) |->
               [symbol |-> results[i].symbol,
                shares |-> results[i].shares,
                metrics |-> results[i].metrics,
                portfolio_pct |->
                  PortPct(PositionValue(results[i]), total_value)]],
   total_value |-> total_value]

IndexError(status, holdings) ==
  [op |-> "portfolio_performance", exc |-> status, request |-> holdings]

\* the endpoint with one handler for every exception: the HTTPException of
\* the empty result is wrapped like any other
IndexAnswer_one_handler(done, holdings, invalid) ==
  [store |-> done.store,
   ret |-> IF done.results = <<>> \/ invalid
           THEN IndexError("HTTP500", holdings)
           ELSE IndexPercentages(done.results, IndexTotal(done.results),
                                 holdings)]

\* the endpoint once the holdings are processed.  invalid: building the
\* PortfolioResponse raises (a field its model does not accept).
IndexAnswer(done, holdings, invalid) ==
  [store |-> done.store,
   ret |-> IF done.results = <<>>
           THEN IndexError("HTTP400", holdings)
           ELSE IF invalid
           THEN IndexError("HTTP500", holdings)
           ELSE IndexPercentages(done.results, IndexTotal(done.results),
                                 holdings)]

\* index.portfolio_performance(request)
index_portfolio_performance(store, holdings, now, upstream, rowsOf, quoteOf, raising, invalid) ==
  IndexAnswer(ProcessHoldings([store |-> store, results |-> <<>>], holdings,
                              now, upstream, rowsOf, quoteOf, raising),
              holdings, invalid)

\* the endpoint returns r
IndexReturns(r) ==
  /\ cache_store' = r.store
  /\ ret' = r.ret

-----------------------------------------------------------------------------
(* api/portfolio/performance.py *)

HistRow(period, close, high, low) ==
  [period |-> period, close |-> close, high |-> high, low |-> low]

\* the dict query_motherduck_data builds from one fetched row
ConvertHistRow(raw) ==
  HistRow(raw.period, FloatOrNone(raw.close), FloatOrNone(raw.high),
          FloatOrNone(raw.low))

SetMax(S) == CHOOSE x \in S : \A y \in S : y <= x
SetMin(S) == CHOOSE x \in S : \A y \in S : x <= y

\* the dict returned when anything raised
FallbackMetrics(current_price) ==
  [fallback |-> TRUE, current_price |-> current_price,
   daily_change_pct |-> 0, ytd_pct |-> 0, yoy_pct |-> 0,
   portfolio_gain_pct |-> 0, pct_below_52w_high |-> 0,
   channel_range_52w |-> 0]

PctIf(reference, num) == IF Truthy(reference) THEN Pct2(num, reference) ELSE 0

\* portfolio/performance.calculate_metrics.  historical_data is newest
\* first (ORDER BY date DESC); sorted_data is its reverse.  An empty list
\* raises IndexError, no truthy high (low) makes max (min) raise
\* ValueError; both end in the fallback.
performance_calculate_metrics(historical_data, current_price, cost_basis) ==
  LET rows == historical_data
      InYear(r) == r.period = "this_year"
      YearAgo(r) == r.period = "older"
      ytd_data == SelectSeq(rows, InYear)
      yoy_data == SelectSeq(rows, YearAgo)
      highs == {rows[i].high : i \in {j \in 1..Len(rows) : Truthy(rows[j].high)}}
      lows == {rows[i].low : i \in {j \in 1..Len(rows) : Truthy(rows[j].low)}}
      high_52w == SetMax(highs)
      low_52w == SetMin(lows)
  IN IF rows = <<>> \/ highs = {} \/ lows = {}
     THEN FallbackMetrics(current_price)
     ELSE
       [fallback |-> FALSE, current_price |-> current_price,
        daily_change_pct |->
          IF Len(rows) >= 2
          THEN PctIf(rows[2].close, current_price - rows[2].close) ELSE 0,
        ytd_pct |->
          IF ytd_data # <<>>
          THEN PctIf(ytd_data[Len(ytd_data)].close,
                     current_price - ytd_data[Len(ytd_data)].close)
          ELSE 0,
        yoy_pct |->
          IF yoy_data # <<>>
          THEN PctIf(yoy_data[1].close, current_price - yoy_data[1].close)
          ELSE 0,
        portfolio_gain_pct |-> PctIf(cost_basis, current_price - cost_basis),
        pct_below_52w_high |-> PctIf(high_52w, high_52w - current_price),
        channel_range_52w |->
          IF high_52w # low_52w
          THEN Pct2(current_price - low_52w, high_52w - low_52w) ELSE 0]

-----------------------------------------------------------------------------
(* The daily changes of api/benchmarks.py and the scores of
   api/portfolio_fundamentals.py *)

\* ((current - previous) / previous) * 100 on two fetched values: None
\* raises TypeError, a zero divisor ZeroDivisionError
DailyChange(current_price, previous_price) ==
  IF current_price = None \/ previous_price = None THEN Raise("TypeError")
  ELSE PyPct2(FALSE, FALSE, current_price - previous_price, previous_price)

\* benchmarks.get_spy_daily_change.  result: the closes the query returns,
\* newest first.  Every exception is caught and reported in 'error'.
get_spy_daily_change(upstream, result) ==
  IF upstream # "ok" THEN [daily_change |-> Float(0), error |-> TRUE]
  ELSE IF Len(result) < 2 THEN [daily_change |-> Float(0), error |-> TRUE]
  ELSE LET d == DailyChange(result[1], result[2]) IN
       IF d.exc # "none" THEN [daily_change |-> Float(0), error |-> TRUE]
       ELSE [daily_change |-> d.val, error |-> FALSE]

\* benchmarks.get_stock_daily_change(symbol)
get_stock_daily_change(upstream, result) ==
  IF upstream = "no_token" THEN Float(0)
  ELSE IF upstream # "ok" THEN Float(0)
  ELSE IF Len(result) < 2 THEN Float(0)
  ELSE IF result[2] # None /\ result[2] = 0 THEN Float(0)
  ELSE LET d == DailyChange(result[1], result[2]) IN
       IF d.exc # "none" THEN Float(0) ELSE d.val

SCORE_KEYS == <<"value", "growth", "financial_strength", "quality", "momentum">>

ScoreKeys == {SCORE_KEYS[i] : i \in 1..Len(SCORE_KEYS)}

\* the symbols a request can hold: empty, plain, in lower case with the
\* suffix of the data source
RawSymbols == {"", "AAPL", "aapl.us", "MSFT"}

\* _normalize_symbol(s): s.upper().replace(".US", "").strip()
_normalize_symbol(s) ==
  CASE s = "aapl.us" -> "AAPL"
    [] OTHER -> s

\* a row of PROD_OBQ_Scores and a row of PROD_OBQ_Momentum_Scores: the
\* score columns, each a number or NULL
ObqRow(universe, historical, sector, growth, fs, quality) ==
  [value_universe_score |-> universe, value_historical_score |-> historical,
   value_sector_score |-> sector, growth_score |-> growth, fs_score |-> fs,
   quality_score |-> quality]
MomRow(momentum, systemscore) ==
  [obq_momentum_score |-> momentum, systemscore |-> systemscore]

\* d.update(e)
Updated(d, e) ==
  [k \in (DOMAIN d) \cup (DOMAIN e) |-> IF k \in DOMAIN e THEN e[k] ELSE d[k]]

\* the keys the first query sets from the latest row of a symbol: value is
\* the first value column that is not None, and is not set when all are
ObqScores(row) ==
  [k \in {"growth", "financial_strength", "quality"}
         \cup (IF /\ row.value_universe_score = None
                  /\ row.value_historical_score = None
                  /\ row.value_sector_score = None
               THEN {} ELSE {"value"}) |->
     CASE k = "growth" -> row.growth_score
       [] k = "financial_strength" -> row.fs_score
       [] k = "quality" -> row.quality_score
       [] k = "value" ->
            IF row.value_universe_score # None THEN row.value_universe_score
            ELSE IF row.value_historical_score # None
            THEN row.value_historical_score
            ELSE row.value_sector_score]

\* the key the second query sets: obq_momentum_score, else systemscore
MomScores(row) ==
  [k \in (IF row.obq_momentum_score = None /\ row.systemscore = None
          THEN {} ELSE {"momentum"}) |->
     IF row.obq_momentum_score # None THEN row.obq_momentum_score
     ELSE row.systemscore]

\* the scores of the latest row of a symbol, nothing without a row
LatestObq(sym, obq) ==
  IF sym \in DOMAIN obq THEN ObqScores(obq[sym]) ELSE EmptyDict
LatestMom(sym, mom) ==
  IF sym \in DOMAIN mom THEN MomScores(mom[sym]) ELSE EmptyDict

\* what a query adds to merged[sym]: nothing when it raised
QueryScores(failed, scores) == IF failed THEN EmptyDict ELSE scores

\* both queries under one try: a failure of either leaves no score
MergedScores_one_try(sym, failed, obq, mom) ==
  Updated(QueryScores(failed # {}, LatestObq(sym, obq)),
          QueryScores(failed # {}, LatestMom(sym, mom)))

\* merged[sym] without its 'symbol' after the two queries, each under its
\* own try.  failed: the queries that raise; obq, mom: the latest row of
\* each symbol in the two tables.
MergedScores(sym, failed, obq, mom) ==
  Updated(QueryScores("obq" \in failed, LatestObq(sym, obq)),
          QueryScores("mom" \in failed, LatestMom(sym, mom)))

\* out_row: the symbol and row.get(k) for the five score keys
FundRow(sym, merged) ==
  [symbol |-> sym, scores |-> [k \in ScoreKeys |-> DictGet(merged, k)]]

FundRows(symbols, failed, obq, mom) ==
  [i \in 1..Len(symbols) |->
     FundRow(_normalize_symbol(symbols[i]),
             MergedScores(_normalize_symbol(symbols[i]), failed, obq, mom))]

\* the symbols of the request that are not empty
NonEmpty(symbols) == SelectSeq(symbols, LAMBDA s : s # "")

\* portfolio_fundamentals.get_portfolio_fundamentals(request)
get_portfolio_fundamentals(symbols, upstream, failed, obq, mom) ==
  IF NonEmpty(symbols) = <<>>
  THEN [data |-> <<>>, score_columns |-> <<>>, error |-> FALSE]
  ELSE IF upstream \in {"no_token", "unreachable"}
  THEN [data |-> <<>>, score_columns |-> <<>>, error |-> TRUE]
  ELSE [data |-> FundRows(NonEmpty(symbols), failed, obq, mom),
        score_columns |-> SCORE_KEYS, error |-> FALSE]

-----------------------------------------------------------------------------
(* Single calls on a fresh process: the inputs are drawn when the process
   starts, the call is made once *)

\* a value of a numeric column of the data source; None is the SQL NULL
SqlVals == {None} \cup (0..MaxPrice)
\* what the price provider has for a symbol
LiveVals == {NoQuote} \cup (1..MaxLive)

\* the rows of the query: week_52_high is a MAX(high) and week_52_low a
\* MIN(low) over the same days, every column NULL when its join finds none
SqlRows ==
  {r \in {MdRow(1, p, y, ya, hi, lo) : p, y, ya, hi, lo \in SqlVals} :
     r.week_52_high = None \/ r.week_52_low = None
       \/ r.week_52_high >= r.week_52_low}

\* requests with several holdings, a symbol possibly more than once
MultiHoldings ==
  UNION {[1..n -> {Holding(sym, 1, k) : sym \in Tickers, k \in 1..MaxShares}] :
           n \in 2..MaxPositions}

PerfCall(holdings, dbrows, quotes, upstream) ==
  [fn |-> "calculate_portfolio_performance", holdings |-> holdings,
   dbrows |-> dbrows, quotes |-> quotes, upstream |-> upstream]

\* The calls of calculate_portfolio_performance: one holding of one share
\* over every row of the data source; one holding of any number of shares
\* over the full row; several holdings over the full row, present or not;
\* one request per upstream failure.
IsPerfCall(c) ==
  \/ \E cb \in 0..MaxCost, r \in SqlRows, q \in LiveVals :
       c = PerfCall(<<Holding("AAPL", cb, 1)>>, [sym \in {"AAPL"} |-> r],
                    [sym \in {"AAPL"} |-> q], "ok")
  \/ \E n \in 0..MaxShares, q \in LiveVals :
       c = PerfCall(<<Holding("AAPL", 1, n)>>, [sym \in {"AAPL"} |-> DbRow],
                    [sym \in {"AAPL"} |-> q], "ok")
  \/ \E hs \in MultiHoldings, S \in SUBSET Tickers :
       \E q \in QuotesFor(SymbolsOf(hs)) :
         c = PerfCall(hs, [sym \in S |-> DbRow], q, "ok")
  \/ \E u \in UpstreamOutcomes \ {"ok"} :
       c = PerfCall(<<Holding("AAPL", 1, 1)>>, DbRows,
                    [sym \in {"AAPL"} |-> 1], u)

PriceRows == [period : {Periods[i] : i \in 1..3}, price : SqlVals]

\* price rows newest first: the periods never go back towards today
Histories ==
  {h \in UNION {[1..k -> PriceRows] : k \in 0..MaxRows} :
     \A i \in 1..(Len(h) - 1) :
        PeriodRank(h[i].period) <= PeriodRank(h[i + 1].period)}

BaseHistory ==
  <<[period |-> "this_year", price |-> 1], [period |-> "older", price |-> 1]>>

\* a request to the endpoint of api/index.py.  raising: for every holding,
\* whether its worker raises.  invalid: whether the response model rejects
\* the results.
IndexFaultCall(holdings, rows, quotes, upstream, raising, invalid) ==
  [fn |-> "portfolio_performance", holdings |-> holdings, rows |-> rows,
   quotes |-> quotes, upstream |-> upstream, raising |-> raising,
   invalid |-> invalid]

\* requests of one holding or more, a symbol possibly more than once
FaultHoldings ==
  UNION {[1..n -> {Holding(sym, 1, 1) : sym \in Tickers}] :
           n \in 1..MaxPositions}

IndexCall(holdings, rows, quotes, upstream) ==
  IndexFaultCall(holdings, rows, quotes, upstream,
                 [i \in 1..Len(holdings) |-> FALSE], FALSE)

\* The calls of the endpoint of api/index.py, whose request model wants at
\* least one holding, cost_basis > 0 and shares > 0: one holding over
\* every history; several holdings; one request per upstream failure;
\* several holdings with workers that raise and a response that is
\* rejected.
IsIndexCall(c) ==
  \/ \E h \in Histories, q \in LiveVals :
       c = IndexCall(<<Holding("AAPL", 1, 1)>>, [sym \in {"AAPL"} |-> h],
                     [sym \in {"AAPL"} |-> q], "ok")
  \/ \E hs \in MultiHoldings :
       \E q \in QuotesFor(SymbolsOf(hs)) :
         c = IndexCall(hs, [sym \in SymbolsOf(hs) |-> BaseHistory], q, "ok")
  \/ \E u \in UpstreamOutcomes \ {"ok"} :
       c = IndexCall(<<Holding("AAPL", 1, 1)>>,
                     [sym \in {"AAPL"} |-> BaseHistory],
                     [sym \in {"AAPL"} |-> 1], u)
  \/ \E hs \in FaultHoldings, invalid \in BOOLEAN :
       \E raising \in [1..Len(hs) -> BOOLEAN] :
         c = IndexFaultCall(hs, [sym \in SymbolsOf(hs) |-> BaseHistory],
                            [sym \in SymbolsOf(hs) |-> 1], "ok", raising,
                            invalid)

RawRows == [close : SqlVals, high : SqlVals, low : SqlVals]
RawHistRow(period, v) == HistRow(period, v.close, v.high, v.low)

\* The calls of calculate_metrics of api/portfolio/performance.py: no
\* fetched row, one row of this year, or one of this year and an older one
\* of a day with a single price.
IsMetricsCall(c) ==
  \E q \in 1..MaxLive, cb \in 0..MaxCost :
    \/ c = [fn |-> "calculate_metrics", rows |-> <<>>, current_price |-> q,
            cost_basis |-> cb]
    \/ \E v \in RawRows :
         c = [fn |-> "calculate_metrics",
              rows |-> <<RawHistRow("this_year", v)>>,
              current_price |-> q, cost_basis |-> cb]
    \/ \E v \in RawRows, w \in SqlVals :
         c = [fn |-> "calculate_metrics",
              rows |-> <<RawHistRow("this_year", v), HistRow("older", w, w, w)>>,
              current_price |-> q, cost_basis |-> cb]

\* the closes a daily-change query returns, newest first (LIMIT 2)
QueryResults == UNION {[1..k -> SqlVals] : k \in 0..2}

IsDailyChangeCall(c) ==
  \E f \in {"get_spy_daily_change", "get_stock_daily_change"},
     u \in UpstreamOutcomes, r \in QueryResults :
    c = [fn |-> f, upstream |-> u, result |-> r]

\* _get_latest_per_symbol (api/portfolio_fundamentals.py).  A row of a score
\* table here: its symbol column, its date column (a date or NULL) and one
\* score column.

\* the symbols of the rows of a table: empty (NULL is turned into it by
\* `sym_raw or ""`), plain, with the suffix, in lower case with the suffix
RowSymbols == {"", "AAPL", "AAPL.US", "aapl.us"}

\* (sym_raw or "").replace(".US", "").strip().upper(): the replacement is
\* done before the upper-casing, so a lower-case suffix stays
RowKey(sym_raw) ==
  CASE sym_raw = "AAPL.US" -> "AAPL"
    [] sym_raw = "aapl.us" -> "AAPL.US"
    [] OTHER -> sym_raw

\* a later row replaces the kept one also when its date is the same
Newer_or_same(date_val, prev_date) ==
  date_val # None /\ (prev_date = None \/ date_val >= prev_date)

\* date_val is not None and (prev_date is None or date_val > prev_date)
Newer(date_val, prev_date) ==
  date_val # None /\ (prev_date = None \/ date_val > prev_date)

\* one pass of the loop over the rows: by_symbol after the row
KeepRow(by_symbol, row) ==
  LET key == RowKey(row.symbol) IN
  IF key = "" THEN by_symbol
  ELSE IF key \notin DOMAIN by_symbol
  THEN Updated(by_symbol, [k \in {key} |-> row])
  ELSE IF Newer(row.date, by_symbol[key].date)
  THEN Updated(by_symbol, [k \in {key} |-> row])
  ELSE by_symbol

\* by_symbol after the loop over rows[i..]
RECURSIVE BySymbol(_, _, _)
BySymbol(by_symbol, rows, i) ==
  IF i > Len(rows) THEN by_symbol
  ELSE BySymbol(KeepRow(by_symbol, rows[i]), rows, i + 1)

\* the result: per symbol the columns of the kept row that are neither the
\* symbol nor a date, and the symbol column set to the key
_get_latest_per_symbol(rows) ==
  LET by_symbol == BySymbol(EmptyDict, rows, 1) IN
  [key \in DOMAIN by_symbol |->
     [symbol |-> key, score |-> by_symbol[key].score]]

\* the latest rows of the two score tables: AAPL has no row, a full row, a
\* row whose first value column is NULL, or a row of NULLs; MSFT has no
\* row or a full row
ObqTables ==
  {[sym \in S |-> IF sym = "AAPL" THEN r ELSE ObqRow(1, 2, 2, 1, 1, 1)] :
     S \in SUBSET Tickers,
     r \in {ObqRow(1, 2, 2, 1, 1, 1), ObqRow(None, 2, None, None, 1, 1),
            ObqRow(None, None, None, None, None, None)}}
MomTables ==
  {[sym \in S |-> IF sym = "AAPL" THEN r ELSE MomRow(1, 2)] :
     S \in SUBSET Tickers,
     r \in {MomRow(1, 2), MomRow(None, 2), MomRow(None, None)}}

\* The calls of get_portfolio_fundamentals: the queries fail only when the
\* connection is there.
IsFundamentalsCall(c) ==
  \E syms \in UNION {[1..k -> RawSymbols] : k \in 0..MaxHoldings},
     u \in {"ok", "no_token", "unreachable"},
     obq \in ObqTables, mom \in MomTables :
    \E failed \in IF u = "ok" THEN SUBSET {"obq", "mom"} ELSE {{}} :
      c = [fn |-> "get_portfolio_fundamentals", symbols |-> syms,
           upstream |-> u, failed |-> failed, obq |-> obq, mom |-> mom]

\* The calls of _get_latest_per_symbol: lists of rows, each with its own
\* score (its place in the list), so that the rows can be told apart.
Scored(rows) ==
  [i \in 1..Len(rows) |->
     [symbol |-> rows[i].symbol, date |-> rows[i].date, score |-> i]]
IsLatestCall(c) ==
  \E n \in 0..MaxTableRows :
  \E rows \in [1..n -> [symbol : RowSymbols, date : {None, 1, 2}]] :
    c = [fn |-> "_get_latest_per_symbol", rows |-> Scored(rows)]

InitMetrics ==
  /\ clock = 0
  /\ files = [p \in AllFiles |-> NoFile]
  /\ pricesFile = NoPricesFile
  /\ mgr = NewManager([p \in AllFiles |-> NoFile], NoPricesFile, 0)
  /\ saved = [p \in AllFiles |-> NoSave]
  /\ \/ IsPerfCall(call)
     \/ IsIndexCall(call)
     \/ IsMetricsCall(call)
     \/ IsDailyChangeCall(call)
     \/ IsFundamentalsCall(call)
     \/ IsLatestCall(call)
  /\ ret = Idle
  /\ cache_store = EmptyDict
  /\ NoThreads

\* POST /api/portfolio/performance of api/portfolio_performance.py
PerformanceCall ==
  /\ ret = Idle
  /\ call.fn = "calculate_portfolio_performance"
  /\ PerformanceReturns(
       calculate_portfolio_performance(mgr, files, pricesFile, call.holdings,
         FALSE, clock, call.upstream, call.dbrows, "ok", call.quotes, "ok"),
       "ok")
  /\ UNCHANGED <<clock, call, cache_store, conc>>

\* POST /api/portfolio/performance of api/index.py
IndexPerformanceCall ==
  /\ ret = Idle
  /\ call.fn = "portfolio_performance"
  /\ IndexReturns(index_portfolio_performance(cache_store, call.holdings,
                    clock, call.upstream, call.rows, call.quotes,
                    call.raising, call.invalid))
  /\ UNCHANGED <<clock, files, pricesFile, mgr, saved, call, conc>>

\* calculate_metrics of api/portfolio/performance.py on the fetched rows
CalculateMetricsCall ==
  /\ ret = Idle
  /\ call.fn = "calculate_metrics"
  /\ ret' = [op |-> "calculate_metrics", exc |-> "none",
             metrics |-> performance_calculate_metrics(
                           [i \in 1..Len(call.rows) |->
                              ConvertHistRow(call.rows[i])],
                           call.current_price, call.cost_basis)]
  /\ UNCHANGED <<clock, files, pricesFile, mgr, saved, call, cache_store, conc>>

SpyDailyChangeCall ==
  /\ ret = Idle
  /\ call.fn = "get_spy_daily_change"
  /\ LET r == get_spy_daily_change(call.upstream, call.result) IN
     ret' = [op |-> "get_spy_daily_change", exc |-> "none",
             daily_change |-> r.daily_change, error |-> r.error]
  /\ UNCHANGED <<clock, files, pricesFile, mgr, saved, call, cache_store, conc>>

StockDailyChangeCall ==
  /\ ret = Idle
  /\ call.fn = "get_stock_daily_change"
  /\ ret' = [op |-> "get_stock_daily_change", exc |-> "none",
             daily_change |->
               get_stock_daily_change(call.upstream, call.result)]
  /\ UNCHANGED <<clock, files, pricesFile, mgr, saved, call, cache_store, conc>>

FundamentalsCall ==
  /\ ret = Idle
  /\ call.fn = "get_portfolio_fundamentals"
  /\ LET r == get_portfolio_fundamentals(call.symbols, call.upstream,
                                         call.failed, call.obq, call.mom)
     IN ret' = [op |-> "get_portfolio_fundamentals", exc |-> "none",
                data |-> r.data, error |-> r.error]
  /\ UNCHANGED <<clock, files, pricesFile, mgr, saved, call, cache_store, conc>>

LatestPerSymbolCall ==
  /\ ret = Idle
  /\ call.fn = "_get_latest_per_symbol"
  /\ ret' = [op |-> "_get_latest_per_symbol", exc |-> "none",
             by_symbol |-> BySymbol(EmptyDict, call.rows, 1),
             out |-> _get_latest_per_symbol(call.rows)]
  /\ UNCHANGED <<clock, files, pricesFile, mgr, saved, call, cache_store, conc>>

NextMetrics ==
  \/ PerformanceCall
  \/ IndexPerformanceCall
  \/ CalculateMetricsCall
  \/ SpyDailyChangeCall
  \/ StockDailyChangeCall
  \/ FundamentalsCall
  \/ LatestPerSymbolCall

SpecMetrics == InitMetrics /\ [][NextMetrics]_vars

-----------------------------------------------------------------------------
(* Benchmarks (api/benchmarks.py): the handler and its day cache *)

\* one holding of calculate_portfolio_daily_change's first loop.  closes:
\* the adjusted closes of the symbol, newest first; the price query reads
\* the newest one (fetchone: a NULL is None), get_stock_daily_change the
\* two newest.
BenchDetail(holding, closes) ==
  [position_value |-> closes[1] * holding.shares,
   daily_change |-> get_stock_daily_change("ok", closes).val]

\* the first loop: the details of the holdings that have a row
RECURSIVE BenchDetails(_, _)
BenchDetails(holdings, closesOf) ==
  IF holdings = <<>> THEN <<>>
  ELSE IF closesOf[Head(holdings).symbol] = <<>>
  THEN BenchDetails(Tail(holdings), closesOf)
  ELSE <<BenchDetail(Head(holdings), closesOf[Head(holdings).symbol])>>
         \o BenchDetails(Tail(holdings), closesOf)

\* a holding whose newest close is NULL: None * shares raises
BenchPriceless(holdings, closesOf) ==
  \E i \in 1..Len(holdings) :
    /\ closesOf[holdings[i].symbol] # <<>>
    /\ closesOf[holdings[i].symbol][1] = None

\* round(sum of position_value / total_value * daily_change, 2)
WeightedChange(details, total_value) ==
  RoundHalfEven(SumSeq([i \in 1..Len(details) |->
                          details[i].position_value * details[i].daily_change]),
                total_value)

BenchTotal(details) ==
  SumSeq([i \in 1..Len(details) |-> details[i].position_value])

\* benchmarks.calculate_portfolio_daily_change: its 'daily_change'.  Without
\* a token every holding is skipped; every exception is caught and gives
\* 0.0.
calculate_portfolio_daily_change(holdings, upstream, closesOf) ==
  IF holdings = <<>> \/ upstream # "ok" THEN 0
  ELSE IF BenchPriceless(holdings, closesOf) THEN 0
  ELSE IF BenchTotal(BenchDetails(holdings, closesOf)) = 0 THEN 0
  ELSE WeightedChange(BenchDetails(holdings, closesOf),
                      BenchTotal(BenchDetails(holdings, closesOf)))

\* response_data, the dict that is cached
BenchData(portfolio_daily_change, benchmark_daily_change) ==
  [k \in {StrKey("portfolio_daily_change"), StrKey("benchmark_daily_change"),
          StrKey("daily_alpha")} |->
     CASE k = StrKey("portfolio_daily_change") -> portfolio_daily_change
       [] k = StrKey("benchmark_daily_change") -> benchmark_daily_change
       [] k = StrKey("daily_alpha")
            -> portfolio_daily_change - benchmark_daily_change]

\* the BenchmarksResponse built from data
BenchResponse(data, cache_hit) ==
  [portfolio_daily_change |-> data[StrKey("portfolio_daily_change")],
   benchmark_daily_change |-> data[StrKey("benchmark_daily_change")],
   daily_alpha |-> data[StrKey("daily_alpha")],
   cache_hit |-> cache_hit]

\* the fresh calculation, its save and its response
BenchFresh(fs, data, t, outcome) ==
  [files |-> save_benchmarks_cache(fs, data, t, outcome), wrote |-> TRUE,
   written |-> data, response |-> BenchResponse(data, FALSE)]

\* benchmarks.calculate_benchmarks(request, force_refresh).  spy: the closes
\* of SPY, newest first.
calculate_benchmarks(fs, holdings, force_refresh, t, upstream, closesOf, spy, outcome) ==
  IF load_cached_benchmarks(fs, t).hit /\ ~force_refresh
  THEN [files |-> fs, wrote |-> FALSE, written |-> EmptyDict,
        response |-> BenchResponse(load_cached_benchmarks(fs, t).val, TRUE)]
  ELSE BenchFresh(fs,
         BenchData(calculate_portfolio_daily_change(holdings, upstream,
                                                    closesOf),
                   get_spy_daily_change(upstream, spy).daily_change.val),
         t, outcome)

\* the closes of a symbol in the data source, newest first: no row, a rise,
\* a fall, a NULL newest close
BenchCloses == {<<>>, <<2, 1>>, <<1, 2>>, <<None, 1>>}

\* requests of AAPL, of any number of shares, and of one share of MSFT
BenchRequests ==
  UNION {[1..n -> {Holding("AAPL", 1, k) : k \in 1..MaxShares}
                    \cup {Holding("MSFT", 1, 1)}] :
           n \in 0..MaxHoldings}

\* what the data source and the file system do during one calculation: the
\* failures are explored on one request
BenchEnv(holdings) ==
  {<<u, o>> \in UpstreamOutcomes \X WriteOutcomes :
     (u = "ok" /\ o = "ok") \/ Len(holdings) = 1}

\* the handler returns r
BenchReturns(r, holdings, force_refresh, upstream, closesOf, spy, o) ==
  /\ files' = r.files
  /\ saved' = IF r.wrote
              THEN AfterWrite(saved, BENCHMARKS_CACHE_FILE, Today(clock),
                              r.written, o)
              ELSE saved
  /\ ret' = [op |-> "calculate_benchmarks", exc |-> "none",
             request |-> holdings, force_refresh |-> force_refresh,
             upstream |-> upstream, closes |-> closesOf, spy |-> spy,
             response |-> r.response]

\* POST /api/benchmarks
CalculateBenchmarks ==
  /\ ret = Idle
  /\ \E holdings \in BenchRequests, force_refresh \in BOOLEAN :
     \E env \in BenchEnv(holdings) :
     \E closesOf \in [Tickers -> BenchCloses], spy \in {<<>>, <<2, 1>>} :
       BenchReturns(calculate_benchmarks(files, holdings, force_refresh, clock,
                                         env[1], closesOf, spy, env[2]),
                    holdings, force_refresh, env[1], closesOf, spy, env[2])
  /\ UNCHANGED <<clock, pricesFile, mgr, call, cache_store, conc>>

NextBench ==
  \/ Return
  \/ NextDay
  \/ CalculateBenchmarks

SpecBench == Init /\ [][NextBench]_vars

-----------------------------------------------------------------------------
(* Concurrent requests.  The server runs every request of
   calculate_portfolio_performance in a thread of its own, all of them on
   the module's one CacheManager.  A step is what a thread does between two
   points where another thread can run; a block under `with self._lock` is
   one step, taken by the thread that holds the lock. *)

MaxThreads == 2      \* requests running at the same time
Threads == 1..MaxThreads

\* every request holds the one symbol
ThreadTickers == {"AAPL"}

\* the steps that start with `with self._lock`
LockedSteps ==
  {"is_valid", "fetch_check", "save_mem", "ucp_write", "get_price", "get_md",
   "all_prices"}
\* the steps that read current_prices or motherduck_data
ReadSteps ==
  {"is_valid", "fetch_check", "needs_refresh", "ucp_check", "get_price",
   "get_md", "cache_info", "all_prices"}
\* the steps that write them
WriteSteps == {"save_mem", "ucp_write"}

Thread(force) ==
  [pc |-> "is_valid", force_refresh |-> force, tickers |-> ThreadTickers,
   quote |-> NoQuote]

\* The process has just started or has served requests before: the prices
\* of the symbol cached or not, today's MotherDuck data loaded or not.
InitThreads ==
  /\ clock = 0
  /\ files = [p \in AllFiles |-> NoFile]
  /\ pricesFile = NoPricesFile
  /\ \E priced, loaded \in BOOLEAN :
       mgr = [current_prices |->
                IF priced THEN [tk \in ThreadTickers |-> PriceEntry(1, 0)]
                ELSE EmptyDict,
              motherduck_data |->
                IF loaded
                THEN Md(Today(0), [k \in {UsKey("AAPL")} |-> ConvertRow(DbRow)])
                ELSE NoMd]
  /\ saved = [p \in AllFiles |-> NoSave]
  /\ call = NoCall
  /\ ret = Idle
  /\ cache_store = EmptyDict
  /\ threads \in [Threads -> {Thread(f) : f \in BOOLEAN}]
  /\ lock = Free
  /\ queries = 0

\* the thread goes on with step pc
Goto(t, pc) == threads' = [threads EXCEPT ![t].pc = pc]

\* step 2 of calculate_portfolio_performance: force_refresh stops the `or`
\* before needs_price_refresh, and update_current_prices(force=True) goes
\* straight to the fetch
Step2(th) == IF th.force_refresh THEN "ucp_fetch" ELSE "needs_refresh"

\* a thread enters a `with self._lock` block
Acquire(t) ==
  /\ threads[t].pc \in LockedSteps
  /\ lock = Free
  /\ lock' = t
  /\ UNCHANGED <<clock, files, pricesFile, mgr, saved, call, ret, cache_store, threads, queries>>

\* step 1: is_motherduck_cache_valid()
IsValid(t) ==
  /\ threads[t].pc = "is_valid"
  /\ lock = t
  /\ lock' = Free
  /\ Goto(t, IF is_motherduck_cache_valid(mgr, clock)
             THEN Step2(threads[t]) ELSE "fetch_check")
  /\ UNCHANGED <<clock, files, pricesFile, mgr, saved, call, ret, cache_store, queries>>

\* fetch_motherduck_data: the check of today's data, under the lock
FetchCheck(t) ==
  /\ threads[t].pc = "fetch_check"
  /\ lock = t
  /\ lock' = Free
  /\ Goto(t, IF is_motherduck_cache_valid(mgr, clock)
             THEN Step2(threads[t]) ELSE "query")
  /\ UNCHANGED <<clock, files, pricesFile, mgr, saved, call, ret, cache_store, queries>>

\* fetch_motherduck_data: the connection, the query and the conversion of
\* its rows, outside the lock
Query(t) ==
  /\ threads[t].pc = "query"
  /\ queries' = queries + 1
  /\ Goto(t, "save_file")
  /\ UNCHANGED <<clock, files, pricesFile, mgr, saved, call, ret, cache_store, lock>>

\* the data the query of a thread gives
Queried(tickers) ==
  fetch_motherduck_data([current_prices |-> EmptyDict,
                         motherduck_data |-> NoMd],
                        files, tickers, clock, "ok", DbRows, "ok").data

\* _save_motherduck_data: the file is written outside the lock
SaveFile(t) ==
  /\ threads[t].pc = "save_file"
  /\ files' = _save_motherduck_data(mgr, files, Queried(threads[t].tickers),
                                    clock, "ok").files
  /\ saved' = AfterWrite(saved, MOTHERDUCK_DATA_FILE, Today(clock),
                         Queried(threads[t].tickers), "ok")
  /\ Goto(t, "save_mem")
  /\ UNCHANGED <<clock, pricesFile, mgr, call, ret, cache_store, lock, queries>>

\* _save_motherduck_data: self.motherduck_data is assigned under the lock
SaveMem(t) ==
  /\ threads[t].pc = "save_mem"
  /\ lock = t
  /\ lock' = Free
  /\ mgr' = _save_motherduck_data(mgr, files, Queried(threads[t].tickers),
                                  clock, "ok").mgr
  /\ Goto(t, Step2(threads[t]))
  /\ UNCHANGED <<clock, files, pricesFile, saved, call, ret, cache_store, queries>>

\* step 2: needs_price_refresh(tickers) reads current_prices without the
\* lock
NeedsRefresh(t) ==
  /\ threads[t].pc = "needs_refresh"
  /\ Goto(t, IF needs_price_refresh(mgr, threads[t].tickers, clock)
             THEN "ucp_check" ELSE "get_price")
  /\ UNCHANGED <<clock, files, pricesFile, mgr, saved, call, ret, cache_store, lock, queries>>

\* update_current_prices(force=False): the stale tickers are read from
\* current_prices without the lock
UcpCheck(t) ==
  /\ threads[t].pc = "ucp_check"
  /\ threads' = [threads EXCEPT
       ![t].tickers = StaleTickers(mgr, threads[t].tickers, clock),
       ![t].pc = IF StaleTickers(mgr, threads[t].tickers, clock) = {}
                 THEN "get_price" ELSE "ucp_fetch"]
  /\ UNCHANGED <<clock, files, pricesFile, mgr, saved, call, ret, cache_store, lock, queries>>

\* update_current_prices: fetch_price for the tickers, in the worker pool
UcpFetch(t) ==
  /\ threads[t].pc = "ucp_fetch"
  /\ \E q \in {NoQuote} \cup (1..MaxQuote) :
       threads' = [threads EXCEPT ![t].quote = q, ![t].pc = "ucp_write"]
  /\ UNCHANGED <<clock, files, pricesFile, mgr, saved, call, ret, cache_store, lock, queries>>

\* what update_current_prices does under the lock with the fetched quote
UcpWritten(th) ==
  update_current_prices(mgr, pricesFile, th.tickers, TRUE, clock,
                        [tk \in th.tickers |-> th.quote], "ok")

\* update_current_prices: the fetched prices are stored and the file is
\* saved, under the lock
UcpWrite(t) ==
  /\ threads[t].pc = "ucp_write"
  /\ lock = t
  /\ lock' = Free
  /\ mgr' = UcpWritten(threads[t]).mgr
  /\ pricesFile' = UcpWritten(threads[t]).pricesFile
  /\ threads' = [threads EXCEPT ![t].tickers = ThreadTickers,
                                ![t].pc = "get_price"]
  /\ UNCHANGED <<clock, files, saved, call, ret, cache_store, queries>>

\* step 3, the one holding: get_current_price(ticker); without a price the
\* holding is skipped
GetPrice(t) ==
  /\ threads[t].pc = "get_price"
  /\ lock = t
  /\ lock' = Free
  /\ Goto(t, IF get_current_price(mgr, "AAPL").some
             THEN "get_md" ELSE "cache_info")
  /\ UNCHANGED <<clock, files, pricesFile, mgr, saved, call, ret, cache_store, queries>>

\* step 3: get_motherduck_data(ticker)
GetMd(t) ==
  /\ threads[t].pc = "get_md"
  /\ lock = t
  /\ lock' = Free
  /\ Goto(t, "cache_info")
  /\ UNCHANGED <<clock, files, pricesFile, mgr, saved, call, ret, cache_store, queries>>

\* cache_info: cache_manager.motherduck_data is read without the lock
CacheInfo(t) ==
  /\ threads[t].pc = "cache_info"
  /\ Goto(t, "all_prices")
  /\ UNCHANGED <<clock, files, pricesFile, mgr, saved, call, ret, cache_store, lock, queries>>

\* cache_info: get_all_current_prices(); the response is returned
AllPrices(t) ==
  /\ threads[t].pc = "all_prices"
  /\ lock = t
  /\ lock' = Free
  /\ Goto(t, "done")
  /\ UNCHANGED <<clock, files, pricesFile, mgr, saved, call, ret, cache_store, queries>>

NextThreads ==
  \E t \in Threads :
    \/ Acquire(t)
    \/ IsValid(t)
    \/ FetchCheck(t)
    \/ Query(t)
    \/ SaveFile(t)
    \/ SaveMem(t)
    \/ NeedsRefresh(t)
    \/ UcpCheck(t)
    \/ UcpFetch(t)
    \/ UcpWrite(t)
    \/ GetPrice(t)
    \/ GetMd(t)
    \/ CacheInfo(t)
    \/ AllPrices(t)

SpecThreads == InitThreads /\ [][NextThreads]_vars

-----------------------------------------------------------------------------
(* The worker pool of api/index.py: process_single_holding of the holdings
   of one request, run by the threads of a ThreadPoolExecutor on the one
   cache_store.  A step is one operation on the dict; the interpreter may
   switch threads between two of them. *)

\* the two caches a worker goes through: get_motherduck_data, then
\* get_current_price from calculate_metrics
WorkerPrefixes == <<"md_", "price_">>
TtlOf(prefix) ==
  IF prefix = "md_" THEN CACHE_TTL_MOTHERDUCK ELSE CACHE_TTL_PRICES

\* a worker at the start of process_single_holding(holding).  phase: the
\* cache it is at; age: the age of the entry it was served, if any;
\* result: "record", or "None" after an exception
Worker(symbol) ==
  [pc |-> "contains", symbol |-> symbol, phase |-> 1, age |-> None,
   result |-> "running"]

WorkerKey(th) == CacheKey(WorkerPrefixes[th.phase], th.symbol)

\* the entries cache_store can hold when the request arrives: written now
\* or a day ago
StoreKeys == {CacheKey(WorkerPrefixes[i], sym) : i \in 1..2, sym \in Tickers}
InitWorkers ==
  /\ clock = SecondsPerDay
  /\ files = [p \in AllFiles |-> NoFile]
  /\ pricesFile = NoPricesFile
  /\ mgr = NewManager([p \in AllFiles |-> NoFile], NoPricesFile, 0)
  /\ saved = [p \in AllFiles |-> NoSave]
  /\ call = NoCall
  /\ ret = Idle
  /\ \E keys \in SUBSET StoreKeys :
       cache_store \in [keys -> {[data |-> 1, timestamp |-> ts] :
                                   ts \in {0, SecondsPerDay}}]
  /\ threads \in [Threads -> {Worker(sym) : sym \in Tickers}]
  /\ lock = Free
  /\ queries = 0

\* the worker has the value of the cache it is at and goes on: to
\* get_current_price after get_motherduck_data, to its record after that
Proceed(th) ==
  IF th.phase < Len(WorkerPrefixes)
  THEN [th EXCEPT !.pc = "contains", !.phase = th.phase + 1]
  ELSE [th EXCEPT !.pc = "done", !.result = "record"]

\* a KeyError leaves get_from_cache, which no caller catches before the
\* `except Exception` of process_single_holding: the worker returns None
KeyError(th) == [th EXCEPT !.pc = "done", !.result = "None"]

\* `if key in cache_store:`
Contains(w) ==
  /\ threads[w].pc = "contains"
  /\ threads' = [threads EXCEPT ![w].pc =
                   IF WorkerKey(threads[w]) \in DOMAIN cache_store
                   THEN "lookup" ELSE "fetch"]
  /\ UNCHANGED <<clock, files, pricesFile, mgr, saved, call, ret, cache_store,
                 lock, queries>>

\* `cached = cache_store[key]` and the test of its age
Lookup(w) ==
  LET th == threads[w]
      key == WorkerKey(th)
  IN /\ th.pc = "lookup"
     /\ threads' = [threads EXCEPT ![w] =
          IF key \notin DOMAIN cache_store THEN KeyError(th)
          ELSE IF clock - cache_store[key].timestamp < TtlOf(WorkerPrefixes[th.phase])
          THEN Proceed([th EXCEPT !.age = clock - cache_store[key].timestamp])
          ELSE [th EXCEPT !.pc = "delete"]]
     /\ UNCHANGED <<clock, files, pricesFile, mgr, saved, call, ret,
                    cache_store, lock, queries>>

\* `del cache_store[key]`
Delete(w) ==
  LET th == threads[w]
      key == WorkerKey(th)
  IN /\ th.pc = "delete"
     /\ threads' = [threads EXCEPT ![w] =
          IF key \notin DOMAIN cache_store THEN KeyError(th)
          ELSE [th EXCEPT !.pc = "fetch"]]
     /\ cache_store' = [k \in (DOMAIN cache_store) \ {key} |-> cache_store[k]]
     /\ UNCHANGED <<clock, files, pricesFile, mgr, saved, call, ret, lock,
                    queries>>

\* the miss: the value is fetched and set_cache stores it
FetchAndSet(w) ==
  LET th == threads[w] IN
  /\ th.pc = "fetch"
  /\ cache_store' = set_cache(cache_store, WorkerKey(th), 1, clock)
  /\ threads' = [threads EXCEPT ![w] = Proceed(th)]
  /\ UNCHANGED <<clock, files, pricesFile, mgr, saved, call, ret, lock,
                 queries>>

NextWorkers ==
  \E w \in Threads :
    \/ Contains(w)
    \/ Lookup(w)
    \/ Delete(w)
    \/ FetchAndSet(w)

SpecWorkers == InitWorkers /\ [][NextWorkers]_vars

-----------------------------------------------------------------------------
(* Properties of the cache files, checked under Spec *)

\* the value returned by the load that has just run is the last payload
\* written to the file it read
ReadsBackLastWrite ==
  /\ ret.hit
  /\ ret.val = saved[ret.file].payload

\* a load_cache or load_cached_benchmarks has just read a file whose last
\* write succeeded today and has not been cleared since
LoadedAfterSaveToday ==
  /\ ret.op \in {"load_cache", "load_cached_benchmarks"}
  /\ saved[ret.file].valid
  /\ saved[ret.file].date = Today(clock)

\* every key of the dict is a string, as in a JSON object
JsonNative(d) == \A k \in DOMAIN d : k.kind = "str"

LoadedOtherDay ==
  /\ ret.op \in {"load_cache", "load_cached_benchmarks",
                 "_load_motherduck_data"}
  /\ files[ret.file].kind = "json"
  /\ files[ret.file].cache_date # Today(clock)

\* C2: load_cache, load_cached_benchmarks and _load_motherduck_data report
\* a miss for a cache entry whose cache_date is not the current calendar
\* date, after every sequence of saves, loads and midnights.
C2_RolloverIsMiss ==
  LoadedOtherDay => ~ret.hit

\* an entry written on an earlier day has been loaded and missed
C2_Witness ==
  /\ LoadedOtherDay
  /\ ret.op = "load_cached_benchmarks"
  /\ saved[ret.file].valid
  /\ saved[ret.file].date < Today(clock)
  /\ ~ret.hit

-----------------------------------------------------------------------------
(* Properties of the handlers on a long-lived CacheManager, under SpecMgr *)

\* a handler has just answered without raising
Answered(op) == ret.op = op /\ ret.exc = "none"

\* C3: no handler builds its response from motherduck_data whose
\* cache_date differs from the current calendar date: the allocation is
\* computed from data dated today, and so are the records of a performance
\* response.
C3_NoStaleMotherduckData ==
  /\ Answered("calculate_portfolio_allocation")
       => ret.data_date = Today(clock)
  /\ (Answered("calculate_portfolio_performance") /\ ret.data # <<>>)
       => ret.motherduck_cache_date = Today(clock)

-----------------------------------------------------------------------------
(* Properties of single calls, checked under SpecMetrics *)

\* the call was a request of one holding to api/portfolio_performance.py
\* that has been answered with its record
OneRecord ==
  /\ Answered("calculate_portfolio_performance")
  /\ Len(call.holdings) = 1
  /\ Len(ret.data) = 1

\* the call was a request of one holding to api/index.py, with a quote, and
\* has been answered
OneIndexRecord ==
  /\ Answered("portfolio_performance")
  /\ Len(call.holdings) = 1
  /\ call.quotes[call.holdings[1].symbol] # NoQuote

\* the row the data source holds for the holding of the request
SourceRow == call.dbrows[call.holdings[1].symbol]
\* the price rows the data source holds for the holding of the request
SourceRows == call.rows[call.holdings[1].symbol]
Quote == call.quotes[call.holdings[1].symbol]

\* a value of the data source that is missing: NULL, or 0
Missing(x) == x = None \/ x = 0

AbsVal(x) == IF x < 0 THEN -x ELSE x

\* the position values and the percentages of an answered portfolio response
PositionValues ==
  IF ret.op = "calculate_portfolio_performance" THEN ret.position_values
  ELSE [i \in 1..Len(ret.data) |->
          ret.data[i].metrics.current_price * ret.data[i].shares]
Percentages ==
  IF ret.op = "calculate_portfolio_performance"
  THEN [i \in 1..Len(ret.data) |-> ret.data[i].port_pct]
  ELSE [i \in 1..Len(ret.data) |-> ret.data[i].portfolio_pct]
TotalValue ==
  IF ret.op = "calculate_portfolio_performance"
  THEN ret.total_portfolio_value ELSE ret.total_value

PortfolioAnswered ==
  \/ Answered("calculate_portfolio_performance")
  \/ Answered("portfolio_performance")

\* C4: in every portfolio response with a total value greater than 0 the
\* position values of the returned records sum to the total value, the
\* reported percentages (in hundredths of a percent) sum to 100 within half
\* a hundredth per record, and a single record has percentage 100.0.
C4_WeightsSumToOne ==
  (PortfolioAnswered /\ TotalValue > 0) =>
     /\ SumSeq(PositionValues) = TotalValue
     /\ 2 * AbsVal(SumSeq(Percentages) - 10000) <= Len(ret.data)
     /\ Len(ret.data) = 1 => Percentages[1] = 10000

\* a response of three records whose rounded percentages do not add up to
\* exactly 100.00, from a request with a holding that was skipped
C4_Witness ==
  /\ Answered("calculate_portfolio_performance")
  /\ ret.total_portfolio_value > 0
  /\ Len(ret.data) = 3
  /\ SumSeq(Percentages) # 10000
  /\ SumSeq(PositionValues) = ret.total_portfolio_value

\* C5: the daily change reported for a holding, and for SPY, is exactly 0
\* and no exception escapes when the previous close is missing, NULL or 0;
\* otherwise it is (current - previous) / previous * 100 rounded to 2
\* decimals.
C5_DailyChangeZeroWithoutPrevClose ==
  /\ (ret.op = "calculate_portfolio_performance" /\ Len(call.holdings) = 1
      /\ call.holdings[1].cost_basis > 0 /\ call.upstream = "ok")
       => /\ ret.exc = "none"
          /\ Len(ret.data) = 1 =>
               ret.data[1].daily_change_pct =
                 IF Missing(SourceRow.prev_close) THEN Float(0)
                 ELSE Float(Pct2(Quote - SourceRow.prev_close,
                                 SourceRow.prev_close))
  /\ OneIndexRecord
       => ret.data[1].metrics.daily_change_pct =
            IF Len(SourceRows) < 2 \/ call.upstream # "ok" THEN Float(0)
            ELSE IF Missing(SourceRows[2].price) THEN Float(0)
            ELSE Float(Pct2(Quote - SourceRows[2].price, SourceRows[2].price))
  /\ (ret.op \in {"get_spy_daily_change", "get_stock_daily_change"}
      /\ call.upstream = "ok")
       => /\ ret.exc = "none"
          /\ (Len(call.result) < 2 \/ Missing(call.result[2]))
               => ret.daily_change = Float(0)
          /\ (Len(call.result) = 2 /\ ~Missing(call.result[2])
              /\ call.result[1] # None)
               => ret.daily_change =
                    Float(Pct2(call.result[1] - call.result[2],
                               call.result[2]))

\* the truthy 52-week highs and lows of the rows handed to calculate_metrics
\* of api/portfolio/performance.py
RowHighs ==
  {FloatOrNone(call.rows[i].high) : i \in 1..Len(call.rows)} \ {None}
RowLows ==
  {FloatOrNone(call.rows[i].low) : i \in 1..Len(call.rows)} \ {None}

\* C6: in all three calculators the 52-week channel position is 0, and no
\* division error is raised, when the 52-week high equals the 52-week low
\* or either of them is missing.
C6_ChannelZeroWhenHighIsLow ==
  /\ (ret.op = "calculate_portfolio_performance" /\ Len(call.holdings) = 1
      /\ call.holdings[1].cost_basis > 0 /\ call.upstream = "ok"
      /\ \/ SourceRow.week_52_high = SourceRow.week_52_low
         \/ Missing(SourceRow.week_52_high)
         \/ Missing(SourceRow.week_52_low))
       => /\ ret.exc = "none"
          /\ Len(ret.data) = 1 => ret.data[1].chan_range_pct = Float(0)
  /\ (OneIndexRecord
      /\ ret.data[1].metrics.week_52_high = ret.data[1].metrics.week_52_low)
       => ret.data[1].metrics.channel_range_52w = Float(0)
  /\ ret.op = "calculate_metrics"
       => /\ ret.exc = "none"
          /\ (RowHighs = {} \/ RowLows = {}
                 \/ SetMax(RowHighs) = SetMin(RowLows))
               => ret.metrics.channel_range_52w = 0

\* C7: for every current price and every 52-week high and low with
\* high # low, the channel position reported is at least 0 and at most 100
\* (percentages are in hundredths of a percent).
C7_ChannelWithinZeroAndHundred ==
  /\ (OneRecord
      /\ ~Missing(SourceRow.week_52_high) /\ ~Missing(SourceRow.week_52_low)
      /\ SourceRow.week_52_high # SourceRow.week_52_low)
       => /\ ~ret.data[1].chan_range_pct.nan
          /\ ret.data[1].chan_range_pct.val >= 0
          /\ ret.data[1].chan_range_pct.val <= 10000
  /\ (OneIndexRecord
      /\ ret.data[1].metrics.week_52_high # NaN
      /\ ret.data[1].metrics.week_52_low # NaN
      /\ ret.data[1].metrics.week_52_high # ret.data[1].metrics.week_52_low)
       => /\ ret.data[1].metrics.channel_range_52w.val >= 0
          /\ ret.data[1].metrics.channel_range_52w.val <= 10000

\* the year-start price and the one-year-ago price api/index.py picks from
\* the price rows: the oldest of this year, the newest that is a year old
InYearRows == SelectSeq(SourceRows, LAMBDA r : r.period = "this_year")
YearAgoRows == SelectSeq(SourceRows, LAMBDA r : r.period = "older")

\* C8: when the year-start price, the one-year-ago price or the 52-week
\* high of a holding is missing (NULL or 0), YTD %, YoY % or % below the
\* 52-week high is reported as 0, and the holding's record and the rest of
\* the response are still computed.
C8_MissingReferenceIsZero ==
  /\ (ret.op = "calculate_portfolio_performance" /\ Len(call.holdings) = 1
      /\ call.holdings[1].cost_basis > 0 /\ call.upstream = "ok"
      /\ Quote # NoQuote)
       => /\ ret.exc = "none"
          /\ Len(ret.data) = 1
          /\ Missing(SourceRow.ytd_start_price)
               => ret.data[1].ytd_pct = Float(0)
          /\ Missing(SourceRow.year_ago_price)
               => ret.data[1].yoy_pct = Float(0)
          /\ Missing(SourceRow.week_52_high)
               => ret.data[1].pct_below_52wk_high = Float(0)
  /\ (OneIndexRecord /\ call.upstream = "ok")
       => /\ (InYearRows = <<>>
                \/ Missing(InYearRows[Len(InYearRows)].price))
               => ret.data[1].metrics.ytd_change_pct = Float(0)
          /\ (YearAgoRows = <<>> \/ Missing(YearAgoRows[1].price))
               => ret.data[1].metrics.yoy_change_pct = Float(0)

\* C9: the response of calculate_portfolio_performance has exactly one
\* record for every holding of the request, in request order; a holding
\* without a current price or without historical data is not left out.
C9_OneRecordPerHolding ==
  Answered("calculate_portfolio_performance") =>
     /\ Len(ret.data) = Len(ret.request)
     /\ \A i \in 1..Len(ret.data) : ret.data[i].ticker = ret.request[i].symbol

\* C10: when MOTHERDUCK_TOKEN is missing or the data source is unreachable,
\* get_portfolio_fundamentals, get_spy_daily_change, get_stock_daily_change
\* and calculate_portfolio_performance (through fetch_motherduck_data)
\* raise no exception to their caller.
C10_NoUpstreamFailurePropagates ==
  (/\ ret.op \in {"get_portfolio_fundamentals", "get_spy_daily_change",
                  "get_stock_daily_change",
                  "calculate_portfolio_performance"}
   /\ call.upstream \in {"no_token", "unreachable"})
     => ret.exc = "none"

\* the holdings of the request whose worker did not raise, in request order
Processed ==
  LET kept == SelectSeq([i \in 1..Len(call.holdings) |-> i],
                        LAMBDA i : ~call.raising[i])
  IN [k \in 1..Len(kept) |-> call.holdings[kept[k]]]

\* C11: the endpoint of api/index.py answers HTTP 400 when no holding could
\* be processed, and that error is not rewritten into a 500; an exception
\* raised after the holdings are processed becomes HTTP 500; a holding whose
\* processing raises is dropped, and the request is answered with the other
\* holdings, in request order.
C11_ErrorMapping ==
  ret.op = "portfolio_performance" =>
     /\ Processed = <<>> => ret.exc = "HTTP400"
     /\ (Processed # <<>> /\ call.invalid) => ret.exc = "HTTP500"
     /\ (Processed # <<>> /\ ~call.invalid)
          => /\ ret.exc = "none"
             /\ Len(ret.data) = Len(Processed)
             /\ \A i \in 1..Len(ret.data) :
                  ret.data[i].symbol = Processed[i].symbol

\* a request of several holdings all of whose workers raised, answered
C11_Witness ==
  /\ ret.op = "portfolio_performance"
  /\ Len(call.holdings) > 1
  /\ Processed = <<>>
  /\ ret.exc = "HTTP400"

\* the thread is inside a step that reads or writes the maps of the
\* CacheManager: a step under `with self._lock` begins with the lock held
Accessing(t, steps) ==
  /\ threads[t].pc \in steps
  /\ threads[t].pc \in LockedSteps => lock = t

\* C12: every read and every write of current_prices and motherduck_data
\* happens while the thread holds the manager's lock, so no thread reads
\* them while another thread is writing them.
C12_LockCoversTheMaps ==
  /\ \A t \in DOMAIN threads :
       Accessing(t, ReadSteps \cup WriteSteps) => lock = t
  /\ \A t, u \in DOMAIN threads :
       ~(t # u /\ Accessing(t, ReadSteps) /\ Accessing(u, WriteSteps))

\* C13: for one CacheManager and one calendar date the MotherDuck query is
\* executed at most once, whatever the interleaving of the requests.
C13_OneQueryPerDay ==
  queries <= 1

\* the manager holds MotherDuck data dated today
DayCacheValid ==
  mgr.motherduck_data.some /\ mgr.motherduck_data.cache_date = Today(clock)

\* C14: whether calculate_portfolio_performance runs the MotherDuck query
\* depends on the validity of the day cache and not on force_refresh: with
\* a valid cache no query runs and motherduck_data is left unchanged, and a
\* forced refresh then fetches the current price of every requested ticker;
\* with an invalid cache a call that raises nothing has run the query,
\* forced or not.
C14_ManualRefreshNeverReloads ==
  [][(ret = Idle /\ ret'.op = "calculate_portfolio_performance")
       => /\ DayCacheValid
               => /\ ~ret'.queried
                  /\ mgr'.motherduck_data = mgr.motherduck_data
                  /\ ret'.force_refresh
                       => ret'.fetched = SymbolsOf(ret'.request)
          /\ (~DayCacheValid /\ ret'.exc = "none") => ret'.queried]_vars

\* a forced refresh has been answered from a valid day cache, with prices
\* fetched and with data that an earlier call had loaded
C14_Witness ==
  /\ Answered("calculate_portfolio_performance")
  /\ ret.force_refresh
  /\ ~ret.queried
  /\ ret.fetched # {}
  /\ DayCacheValid

\* C15: whenever a same-day benchmarks cache exists, calculate_benchmarks
\* returns the cached data with cache_hit true and leaves the cache file
\* unchanged, whether force_refresh is true or false.
C15_BenchmarksIgnoreForceRefresh ==
  [][(/\ ret = Idle
      /\ ret'.op = "calculate_benchmarks"
      /\ load_cached_benchmarks(files, clock).hit)
       => /\ ret'.response.cache_hit
          /\ ret'.response
               = BenchResponse(load_cached_benchmarks(files, clock).val, TRUE)
          /\ files' = files]_vars

\* the holdings of the answered benchmarks request that have a price in the
\* data source, with their position values and daily changes
PricedDetails ==
  IF ret.upstream # "ok" THEN <<>>
  ELSE BenchDetails(SelectSeq(ret.request,
                              LAMBDA h : /\ ret.closes[h.symbol] # <<>>
                                         /\ ret.closes[h.symbol][1] # None),
                    ret.closes)

\* C18: in every BenchmarksResponse, computed or served from the cache,
\* daily_alpha is portfolio_daily_change minus benchmark_daily_change (to 2
\* decimals), and portfolio_daily_change is the sum over the priced
\* holdings of the request of position_value / total_value * daily_change,
\* or 0 when the total value is 0.
C18_AlphaIsPortfolioMinusBenchmark ==
  ret.op = "calculate_benchmarks" =>
     /\ ret.response.daily_alpha
          = ret.response.portfolio_daily_change
              - ret.response.benchmark_daily_change
     /\ ret.response.portfolio_daily_change
          = IF BenchTotal(PricedDetails) = 0 THEN 0
            ELSE WeightedChange(PricedDetails, BenchTotal(PricedDetails))

\* a fetch_with_cache is about to answer
FetchAnswers == ret = Idle /\ ret'.op = "fetch_with_cache"

\* fetch_function is called if and only if force_refresh is true or
\* load_cache reports a miss; on a hit that is not forced the cached data
\* is returned and the file is not rewritten
FetchedWhenItMust ==
  [][FetchAnswers
       => /\ ret'.called
               <=> (ret'.force_refresh
                      \/ ~load_cache(files, ret'.module_name, clock).hit)
          /\ ~ret'.called
               => /\ ret'.val = load_cache(files, ret'.module_name, clock).val
                  /\ ret'.exc = "none"
                  /\ files' = files]_vars

\* the call fetched and fetch_function returned
FetchSucceeded ==
  /\ ret.op = "fetch_with_cache"
  /\ ret.called
  /\ ret.fetch.exc = "none"

\* a same-day call that is not forced now returns the data just fetched,
\* without fetching
NextCallReturnsIt ==
  /\ ret.exc = "none"
  /\ ret.val = ret.fetch.val
  /\ fetch_with_cache(files, ret.module_name, FetchRaises, FALSE, clock, "ok")
       = [files |-> files, exc |-> "none", called |-> FALSE,
          val |-> ret.fetch.val]

C17_FallbackToExistingCache ==
  [][(FetchAnswers /\ ret'.called /\ ret'.fetch.exc # "none")
       => /\ files' = files
          /\ IF files[ret'.file].kind = "json"
             THEN /\ ret'.exc = "none"
                  /\ ret'.val = json_load(files[ret'.file].data)
             ELSE ret'.exc = ret'.fetch.exc]_vars

\* a fetch has failed and the answer is the data of a file written on an
\* earlier day
C17_Witness ==
  /\ ret.op = "fetch_with_cache"
  /\ ret.called
  /\ ret.fetch.exc # "none"
  /\ ret.exc = "none"
  /\ files[ret.file].kind = "json"
  /\ files[ret.file].cache_date < Today(clock)
  /\ ret.val = json_load(files[ret.file].data)

\* the request of the answered get_portfolio_fundamentals without its empty
\* symbols
AskedSymbols == NonEmpty(call.symbols)

\* C19: on success get_portfolio_fundamentals returns one row per non-empty
\* input symbol, in input order, each with the normalized symbol and
\* exactly the five score keys; a score without data is null; when one of
\* the two score queries fails, the scores of the other are still there.
C19_FundamentalsOrderAndShape ==
  (ret.op = "get_portfolio_fundamentals" /\ ~ret.error) =>
     /\ Len(ret.data) = Len(AskedSymbols)
     /\ \A i \in 1..Len(ret.data) :
          LET sym == _normalize_symbol(AskedSymbols[i])
              scores == ret.data[i].scores
          IN /\ ret.data[i].symbol = sym
             /\ DOMAIN ret.data[i] = {"symbol", "scores"}
             /\ DOMAIN scores = ScoreKeys
             /\ sym \notin DOMAIN call.obq
                  => \A k \in ScoreKeys \ {"momentum"} : scores[k] = None
             /\ sym \notin DOMAIN call.mom => scores["momentum"] = None
             /\ (sym \in DOMAIN call.mom /\ "mom" \notin call.failed)
                  => scores["momentum"]
                       = DictGet(MomScores(call.mom[sym]), "momentum")
             /\ (sym \in DOMAIN call.obq /\ "obq" \notin call.failed)
                  => /\ scores["growth"] = call.obq[sym].growth_score
                     /\ scores["value"]
                          = DictGet(ObqScores(call.obq[sym]), "value")

\* a request with an empty symbol and a symbol to normalize was answered
\* with the momentum score although the query of the other scores failed
C19_Witness ==
  /\ ret.op = "get_portfolio_fundamentals"
  /\ ~ret.error
  /\ call.symbols = <<"", "aapl.us">>
  /\ call.failed = {"obq"}
  /\ Len(ret.data) = 1
  /\ ret.data[1].symbol = "AAPL"
  /\ ret.data[1].scores["momentum"] # None
  /\ ret.data[1].scores["value"] = None

\* the requested tickers that the manager holds no price for or whose price
\* is older than 30 minutes now
OlderThanTTL(tickers) ==
  {tk \in tickers :
     \/ tk \notin DOMAIN mgr.current_prices
     \/ clock - mgr.current_prices[tk].last_updated > 30 * 60}

\* the tickers the answering update_current_prices has to fetch
ToRefresh ==
  IF ret'.force THEN ret'.tickers ELSE OlderThanTTL(ret'.tickers)

\* C20: update_current_prices(force=False) fetches only the requested
\* tickers that are absent from the cache or older than 30 minutes, and
\* with force=True every requested ticker; a ticker that is fetched with
\* success gets the new price with last_updated at the start of the call;
\* the entry of every other ticker is left unchanged.
C20_SelectiveRefresh ==
  [][(ret = Idle /\ ret'.op = "update_current_prices")
       => /\ ret'.fetched = ToRefresh
          /\ DOMAIN mgr.current_prices \subseteq DOMAIN mgr'.current_prices
          /\ \A tk \in DOMAIN mgr'.current_prices :
               IF tk \in ToRefresh /\ ret'.quotes[tk] # NoQuote
               THEN mgr'.current_prices[tk]
                      = [price |-> ret'.quotes[tk], last_updated |-> clock]
               ELSE /\ tk \in DOMAIN mgr.current_prices
                    /\ mgr'.current_prices[tk] = mgr.current_prices[tk]]_vars

\* a call without force has fetched one of two requested tickers and left
\* the fresh price of the other, cached earlier, as it was
C20_Witness ==
  /\ ret.op = "update_current_prices"
  /\ ~ret.force
  /\ ret.tickers = Tickers
  /\ Cardinality(ret.fetched) = 1
  /\ \A tk \in ret.fetched :
       /\ ret.quotes[tk] # NoQuote
       /\ mgr.current_prices[tk].last_updated = clock
  /\ \E tk \in ret.tickers \ ret.fetched :
       clock - mgr.current_prices[tk].last_updated <= 30 * 60

\* C21: _get_latest_per_symbol keeps, for each symbol (compared after the
\* removal of '.US', trimming and upper-casing), the first of the rows with
\* the largest non-null date, and the first row of the symbol when all its
\* dates are null.
RowsOf(rows, key) == {i \in 1..Len(rows) : RowKey(rows[i].symbol) = key}
Dated(rows, key) == {i \in RowsOf(rows, key) : rows[i].date # None}
IsFirstOf(i, S) == i \in S /\ \A j \in S : i <= j
IsLatest(rows, key, row) ==
  IF Dated(rows, key) = {}
  THEN \E i \in RowsOf(rows, key) :
         IsFirstOf(i, RowsOf(rows, key)) /\ row = rows[i]
  ELSE \E i \in Dated(rows, key) :
         /\ \A j \in Dated(rows, key) : rows[j].date <= rows[i].date
         /\ IsFirstOf(i, {j \in Dated(rows, key) : rows[j].date = rows[i].date})
         /\ row = rows[i]
C21_LatestRowPerSymbol ==
  ret.op = "_get_latest_per_symbol"
    => /\ DOMAIN ret.by_symbol
            = {RowKey(call.rows[i].symbol) : i \in 1..Len(call.rows)} \ {""}
       /\ \A key \in DOMAIN ret.by_symbol :
            /\ IsLatest(call.rows, key, ret.by_symbol[key])
            /\ ret.out[key] = [symbol |-> key,
                               score |-> ret.by_symbol[key].score]

\* three rows of one symbol, written in two ways: a null date, then twice
\* the same date; the second row is kept
C21_Witness ==
  /\ ret.op = "_get_latest_per_symbol"
  /\ Len(call.rows) = 3
  /\ call.rows[1].symbol = "AAPL" /\ call.rows[1].date = None
  /\ call.rows[2].symbol = "AAPL.US" /\ call.rows[2].date = 2
  /\ call.rows[3].symbol = "AAPL" /\ call.rows[3].date = 2
  /\ ret.by_symbol["AAPL"] = call.rows[2]

\* C22: a handler called with a symbol that is not in the MotherDuck data
\* cached for today fetches the data: the allocation then has the symbol,
\* and calculate_portfolio_performance has queried the data source.
MissingToday(symbols) ==
  /\ is_motherduck_cache_valid(mgr, clock)
  /\ \E sym \in symbols : UsKey(sym) \notin DOMAIN mgr.motherduck_data.data
C22_AllocationFetchesMissing ==
  (/\ ret = Idle
   /\ ret'.op = "calculate_portfolio_allocation"
   /\ ret'.exc = "none"
   /\ MissingToday(SymbolsOf(ret'.request)))
    => \A sym \in SymbolsOf(ret'.request) : UsKey(sym) \in DOMAIN ret'.company
C22_PerformanceFetchesMissing ==
  (/\ ret = Idle
   /\ ret'.op = "calculate_portfolio_performance"
   /\ ret'.exc = "none"
   /\ MissingToday(SymbolsOf(ret'.request)))
    => ret'.queried
C22_MissingSymbolsAreFetched ==
  [][C22_AllocationFetchesMissing /\ C22_PerformanceFetchesMissing]_vars

\* C23: list_all_caches has an entry for every module name whose file was
\* written and not cleared since, also for a name that itself holds
\* '_data'; and get_cache_info(m).is_valid is true exactly when load_cache(m)
\* accepts the date of the file.
C23_ListsEveryCache ==
  /\ ret.op = "list_all_caches"
       => \A m \in ListModules :
            saved[get_cache_file_path(m)].valid
              => \E p \in DOMAIN ret.caches : ret.caches[p].module_name = m
  /\ (ret.op = "get_cache_info" /\ ret.info # <<>>)
       => (ret.info[1].is_valid
             <=> load_cache(files, ret.module_name, clock).hit)

\* C24: the portfolio_daily_change and the daily_alpha of every benchmarks
\* response are the values computed from the holdings of its own request,
\* also after an earlier request of the same day with other holdings.
OwnDailyChange ==
  calculate_portfolio_daily_change(ret.request, ret.upstream, ret.closes)
C24_ResponseOfOwnHoldings ==
  ret.op = "calculate_benchmarks" =>
     /\ ret.response.portfolio_daily_change = OwnDailyChange
     /\ ret.response.daily_alpha
          = OwnDailyChange - ret.response.benchmark_daily_change

\* C25: calculate_benchmarks writes the benchmarks cache only with the
\* values of a successful computation: a calculation in which a failure of
\* the data source was degraded to 0.0 (no token, source unreachable, fewer
\* than two rows of SPY) leaves the cache file as it was, so that no later
\* request of the day is served a degraded result.
BenchDegraded(r) ==
  /\ ~r.response.cache_hit
  /\ (r.upstream # "ok" \/ Len(r.spy) < 2)
C25_DegradedNotCached ==
  [][(/\ ret = Idle
      /\ ret'.op = "calculate_benchmarks"
      /\ BenchDegraded(ret'))
       => files'[BENCHMARKS_CACHE_FILE] = files[BENCHMARKS_CACHE_FILE]]_vars

\* C26: the workers of one request never lose a holding: get_from_cache
\* raises in none of them, also when several hold the same symbol and its
\* entry has expired, so every worker ends with a record; and no worker is
\* served an entry as old as its ttl.
C26_WorkersNeverLoseAHolding ==
  \A w \in Threads :
    /\ threads[w].pc = "done" => threads[w].result = "record"
    /\ threads[w].age # None
         => \E i \in 1..Len(WorkerPrefixes) :
              threads[w].age < TtlOf(WorkerPrefixes[i])

\* C27: calculate_portfolio_performance completes without a division error
\* on every request, also with a holding whose cost_basis is 0, and then
\* reports the portfolio gain % of that holding as 0.
C27_NoArithmeticFailure ==
  ret.op = "calculate_portfolio_performance" =>
     /\ ret.exc # "ZeroDivisionError"
     /\ ret.exc = "none" =>
          \A i \in 1..Len(ret.data) :
            ret.data[i].cost_basis = 0 => ret.data[i].port_gain_pct = Float(0)

====
